---- MODULE Spec2Model ----
(***************************************************************************)
(* A model of golem-resource-storage: the sharded storage                  *)
(* (GenericStorage + UniformView), the Merkle tree (merkle-tree crate),    *)
(* the chunk map and the storage map composed of the three.                *)
(*                                                                         *)
(* Representation choices.                                                 *)
(*  - A byte string (a file's contents, a read or write buffer) is a       *)
(*    run-length sequence <<[n |-> count, v |-> byte], ...>> in normal     *)
(*    form (no empty run, no two neighbouring runs of the same byte).      *)
(*    It denotes exactly one Vec<u8>; 65536-byte files stay small.         *)
(*  - A digest output (64 bytes) is a sequence of integers that encodes    *)
(*    the fed input injectively (collision freedom of SHA-512):            *)
(*    <<-1>> \o input \o <<-2>>.  ZeroHash is the 64 zero bytes of an      *)
(*    unwritten node.                                                      *)
(*  - A usize is represented by its residue of least magnitude modulo      *)
(*    2^64: a negative integer r stands for 2^64 + r, the value a          *)
(*    wrapping subtraction leaves.  Every other quantity of the model is   *)
(*    far below 2^30, so the representation is exact.  With overflow       *)
(*    checks compiled in (the default of a debug build) an underflow or    *)
(*    an overflow panics instead; overflow_checks selects the build.       *)
(***************************************************************************)
EXTENDS Integers, Sequences, FiniteSets, TLC

VARIABLES
    overflow_checks,  \* build profile: TRUE = arithmetic overflow panics
    disk,             \* the files: location -> contents (a byte string)
    storage,          \* GenericStorage: [resources, total_size]
    chunks,           \* ChunkMap
    tree,             \* MerkleTree
    holder,           \* "none" | "some" | "aborted" (panic) | "diverged"
    written,          \* StorageSpec: a write request has been handled
    router,           \* RouterSpec: StorageRouter and the workers it started
    blobs,            \* RouterSpec: the files Save writes: path -> blob
    last              \* the last request and its reply

vars == <<overflow_checks, disk, storage, chunks, tree, holder, written,
          router, blobs, last>>

\* ------------------------------------------------------------------ bounds

MaxRes == 2          \* resources of a storage in StorageSpec
MaxResSize == 2      \* size in bytes of one resource in StorageSpec
MaxBlock == 3        \* block size of an iteration in StorageSpec
MaxLeaves == 5       \* leaves of a tree in TreeSpec
MaxFiles == 4        \* chunk-sized resources of a storage map
MaxPieces == 4       \* pieces of a one-resource storage map

\* ------------------------------------------------------------ byte strings

Run(n, v) == [n |-> n, v |-> v]

Fill(n, v) == IF n <= 0 THEN <<>> ELSE <<Run(n, v)>>

RECURSIVE RLen(_)
RLen(d) == IF d = <<>> THEN 0 ELSE Head(d).n + RLen(Tail(d))

\* normal form: drop empty runs, merge neighbours of the same byte
RECURSIVE RNorm(_)
RNorm(d) ==
    IF d = <<>> THEN <<>>
    ELSE IF Head(d).n = 0 THEN RNorm(Tail(d))
    ELSE LET r == RNorm(Tail(d)) IN
         IF r # <<>> /\ Head(r).v = Head(d).v
         THEN <<Run(Head(d).n + Head(r).n, Head(d).v)>> \o Tail(r)
         ELSE <<Head(d)>> \o r

RCat(a, b) == RNorm(a \o b)

\* the first k bytes of d (all of d when it is shorter)
RECURSIVE RTake(_, _)
RTake(d, k) ==
    IF k <= 0 \/ d = <<>> THEN <<>>
    ELSE IF Head(d).n >= k THEN <<Run(k, Head(d).v)>>
    ELSE <<Head(d)>> \o RTake(Tail(d), k - Head(d).n)

\* d without its first k bytes
RECURSIVE RDrop(_, _)
RDrop(d, k) ==
    IF k <= 0 \/ d = <<>> THEN d
    ELSE IF Head(d).n > k THEN <<Run(Head(d).n - k, Head(d).v)>> \o Tail(d)
    ELSE RDrop(Tail(d), k - Head(d).n)

\* bytes [from, from + len) of d
RSlice(d, from, len) == RTake(RDrop(d, from), len)

\* d with bytes [at, at + |x|) replaced by x; a gap past the end reads zero
ROverwrite(d, at, x) ==
    LET Splice(padded) ==
            RCat(RCat(RTake(padded, at), x), RDrop(padded, at + RLen(x)))
    IN  Splice(IF RLen(d) < at THEN RCat(d, Fill(at - RLen(d), 0)) ELSE d)

\* ------------------------------------------------------------------ usize

\* the order of two usize values given by their residues: a negative residue
\* is a value just below 2^64, above every non-negative one
ULess(a, b) ==
    IF (a < 0) = (b < 0) THEN a < b ELSE b < 0

UMin(a, b) == IF ULess(b, a) THEN b ELSE a

\* an arithmetic result: with overflow checks a result outside 0..2^64-1
\* panics, otherwise it wraps
Checked(x) == [panic |-> overflow_checks /\ x < 0, val |-> x]

\* ------------------------------------------------------------------ shard

\* Shard::size: 0 when start > end
Shard_size(sh) == IF ULess(sh.end, sh.start) THEN 0 ELSE sh.end - sh.start

\* ------------------------------------------------------------ uniform view

\* UniformView::new
UniformView_new(start, end) ==
    [start |-> start, end |-> end, offset |-> 0, consumed |-> 0,
     view |-> <<>>, panic |-> FALSE]

\* Size for UniformView
UniformView_size(b) == b.end - b.start

\* UniformView::add for a resource at `loc` of `size` bytes: the builder
\* after the call and whether the iteration goes on (the bool returned)
UniformView_add(b, loc, size) ==
    LET offset == b.offset
        b1 == [b EXCEPT !.offset = b.offset + size]
    IN  IF ~ULess(offset, b.end) THEN [b |-> b1, more |-> FALSE]
        ELSE IF size = 0 \/ ULess(b1.offset, b1.start)
             THEN [b |-> b1, more |-> TRUE]
        ELSE
        LET start == Checked(b1.start + b1.consumed - offset)
            left == Checked(UniformView_size(b1) - b1.consumed)
            consumed == Checked(UMin(size, left.val) - start.val)
            shard == [start |-> start.val, end |-> start.val + consumed.val]
            total == b1.consumed + consumed.val
        IN  IF start.panic \/ left.panic \/ consumed.panic
            THEN [b |-> [b1 EXCEPT !.panic = TRUE], more |-> FALSE]
            ELSE [b |-> [b1 EXCEPT !.view = Append(@, [loc |-> loc, shard |-> shard]),
                                   !.consumed = total],
                  more |-> total # UniformView_size(b1)]

\* UniformView::build
UniformView_build(b) ==
    IF b.panic THEN [kind |-> "panic", view |-> <<>>]
    ELSE IF b.consumed # UniformView_size(b)
         THEN [kind |-> "ViewBuildError", view |-> <<>>]
    ELSE [kind |-> "Ok", view |-> b.view]

\* resources.values().all(|resource| builder.add(resource)): add the
\* resources in order until one call returns false
RECURSIVE AddAll(_, _)
AddAll(b, rs) ==
    LET Rest(r) == IF r.more THEN AddAll(r.b, Tail(rs)) ELSE r.b
    IN  IF rs = <<>> THEN b
        ELSE Rest(UniformView_add(b, Head(rs).loc, Head(rs).size))

\* Sharded::view for GenericStorage
GenericStorage_view(st, start_idx, size) ==
    UniformView_build(AddAll(UniformView_new(start_idx, start_idx + size),
                             st.resources))

\* ----------------------------------------------------------- storage I/O

\* Sharded::seek: a negative residue is an offset above i64::MAX, which
\* lseek refuses
SeekFails(sh) == sh.start < 0

\* GenericStorage::read, from the shard at position k of the view on:
\* `start` is the cursor into the caller's buffer `into`
RECURSIVE ReadShards(_, _, _, _)
ReadShards(files, view, start, into) ==
    LET Shard(sh, end, got) ==
            IF end < start \/ end > RLen(into)    \* into[start..end] out of range
            THEN [kind |-> "panic", n |-> start, buf |-> into]
            ELSE IF SeekFails(sh)
            THEN [kind |-> "IoError", n |-> start, buf |-> into]
            ELSE ReadShards(files, Tail(view), start + RLen(got),
                            ROverwrite(into, start, got))
        Each(sh, loc) ==
            Shard(sh, start + Shard_size(sh),
                  RSlice(files[loc], sh.start, Shard_size(sh)))
    IN  IF view = <<>> THEN [kind |-> "Ok", n |-> start, buf |-> into]
        ELSE Each(Head(view).shard, Head(view).loc)

GenericStorage_read(files, st, offset, into) ==
    LET Over(v) == IF v.kind # "Ok" THEN [kind |-> v.kind, n |-> 0, buf |-> into]
                   ELSE ReadShards(files, v.view, 0, into)
    IN  Over(GenericStorage_view(st, offset, RLen(into)))

\* GenericStorage::write: the files after the call as well, since the
\* shards written before a failure stay written
RECURSIVE WriteShards(_, _, _, _)

\* GenericStorage::write whose write_shard writes without the seek, at the
\* start of the file
WriteShards_NoSeek(files, view, start, from) ==
    LET Shard(sh, loc, end, slice) ==
            IF end < start \/ end > RLen(from)
            THEN [kind |-> "panic", n |-> start, files |-> files]
            ELSE IF SeekFails(sh)
            THEN [kind |-> "IoError", n |-> start, files |-> files]
            ELSE WriteShards(
                     IF slice = <<>> THEN files
                     ELSE [files EXCEPT ![loc] = ROverwrite(@, 0, slice)],
                     Tail(view), start + RLen(slice), from)
        Each(sh, loc) ==
            Shard(sh, loc, start + Shard_size(sh),
                  RSlice(from, start, Shard_size(sh)))
    IN  IF view = <<>> THEN [kind |-> "Ok", n |-> start, files |-> files]
        ELSE Each(Head(view).shard, Head(view).loc)

WriteShards(files, view, start, from) ==
    LET Shard(sh, loc, end, slice) ==
            IF end < start \/ end > RLen(from)
            THEN [kind |-> "panic", n |-> start, files |-> files]
            ELSE IF SeekFails(sh)
            THEN [kind |-> "IoError", n |-> start, files |-> files]
            ELSE WriteShards(
                     IF slice = <<>> THEN files
                     ELSE [files EXCEPT ![loc] = ROverwrite(@, sh.start, slice)],
                     Tail(view), start + RLen(slice), from)
        Each(sh, loc) ==
            Shard(sh, loc, start + Shard_size(sh),
                  RSlice(from, start, Shard_size(sh)))
    IN  IF view = <<>> THEN [kind |-> "Ok", n |-> start, files |-> files]
        ELSE Each(Head(view).shard, Head(view).loc)

GenericStorage_write(files, st, offset, from) ==
    LET Over(v) == IF v.kind # "Ok" THEN [kind |-> v.kind, n |-> 0, files |-> files]
                   ELSE WriteShards(files, v.view, 0, from)
    IN  Over(GenericStorage_view(st, offset, RLen(from)))

\* the bytes of the logical address space [0, total) in address order
RECURSIVE Logical(_, _)
Logical(files, rs) ==
    IF rs = <<>> THEN <<>>
    ELSE RCat(RTake(files[Head(rs).loc], Head(rs).size), Logical(files, Tail(rs)))

\* ----------------------------------------------------------------- digest

\* Digest::output_size for Sha512 (ring's SHA512_OUTPUT_LEN)
OutputSize == 64

\* the 64 zero bytes an unwritten node holds
ZeroHash == <<0>>

RECURSIVE Flatten(_)
Flatten(ss) == IF ss = <<>> THEN <<>> ELSE Head(ss) \o Flatten(Tail(ss))

\* Digest::input of each element of `inputs` in order, then Digest::result
Digest(inputs) == <<-1>> \o Flatten(inputs) \o <<-2>>

\* an Array (Vec<u8>) handed to the tree: its length and its contents
HashArray(h) == [len |-> OutputSize, bytes |-> h]

\* ------------------------------------------------------------------ level

\* Level::is_empty, Level::len, Level::contains, Level::down
Level_is_empty(lv) == lv.start >= lv.end
Level_len(lv) == IF Level_is_empty(lv) THEN 0 ELSE lv.end - lv.start
Level_contains(lv, index) == index >= lv.start /\ index < lv.end
Level_down(lv) ==
    IF Level_is_empty(lv) THEN [some |-> FALSE, start |-> 0, end |-> 0]
    ELSE [some |-> TRUE, start |-> lv.end,
          end |-> lv.end + ((Level_len(lv) + 1) \div 2)]

\* IndexedLevel::new: none unless the level holds the index
IndexedLevel_new(index, start, end) ==
    [some |-> Level_contains([start |-> start, end |-> end], index)
              /\ ~Level_is_empty([start |-> start, end |-> end]),
     index |-> index, start |-> start, end |-> end]

\* IndexedLevel::parent counted from the start of the node's own level
IndexedLevel_parent_FromStart(il) == il.start + ((il.index - il.start) \div 2)

\* IndexedLevel::parent
IndexedLevel_parent(il) == il.end + ((il.index - il.start) \div 2)

\* IndexedLevel::down
IndexedLevel_down(il) ==
    LET lv == Level_down(il)
    IN  [some |-> lv.some, index |-> IndexedLevel_parent(il),
         start |-> lv.start, end |-> lv.end]

\* IndexedLevel::siblings: the node indices [left, right] under one parent,
\* -1 for none
IndexedLevel_siblings(il) ==
    IF (il.index - il.start) % 2 = 1 THEN <<il.index - 1, il.index>>
    ELSE <<il.index, IF il.index = il.end - 1 THEN -1 ELSE il.index + 1>>

\* IndexedLevel::sibling without the test for the last node of the level
IndexedLevel_sibling_NoOddTail(il) ==
    IF (il.index - il.start) % 2 = 1 THEN il.index - 1
    ELSE il.index + 1

\* IndexedLevel::sibling: -1 for none
IndexedLevel_sibling(il) ==
    IF (il.index - il.start) % 2 = 1 THEN il.index - 1
    ELSE IF il.index = il.end - 1 THEN -1
    ELSE il.index + 1

\* ------------------------------------------------------------ merkle tree

\* tree_size: (node count, height)
RECURSIVE tree_size_loop(_, _, _)
tree_size_loop(leaf_count, height, sum) ==
    IF leaf_count <= 1 THEN [sum |-> sum + leaf_count, height |-> height + 1]
    ELSE tree_size_loop((leaf_count + 1) \div 2, height + 1, sum + leaf_count)

\* tree_size without the root of its own for a lone leaf
tree_size_NoPadding(leaf_count) ==
    LET r == tree_size_loop(leaf_count, 0, 0)
    IN  [size |-> r.sum, height |-> r.height]

tree_size(leaf_count) ==
    LET r == tree_size_loop(leaf_count, 0, 0)
    IN  IF r.height = 1 THEN [size |-> r.sum + 1, height |-> 2]
        ELSE [size |-> r.sum, height |-> r.height]

\* MerkleTree::new
MerkleTree_new(leaf_count) ==
    LET ts == tree_size(leaf_count)
    IN  [bitmap |-> [i \in 1..ts.size |-> FALSE],
         hashes |-> [i \in 1..ts.size |-> ZeroHash],
         height |-> ts.height, leaf_count |-> leaf_count]

\* MerkleTree::has: false outside the bitmap
MerkleTree_has(t, index) ==
    index >= 0 /\ index < Len(t.bitmap) /\ t.bitmap[index + 1]

\* MerkleTree::get_hash
MerkleTree_get_hash(t, index) == t.hashes[index + 1]

\* MerkleTree::get: the stored hash of a leaf
MerkleTree_get(t, leaf_index) ==
    IF leaf_index >= t.leaf_count
    THEN [kind |-> "LeafIndexOutOfRange", hash |-> <<>>]
    ELSE [kind |-> "Ok", hash |-> MerkleTree_get_hash(t, leaf_index)]

\* MerkleTree::built
MerkleTree_built(t) == \A i \in 1..Len(t.bitmap) : t.bitmap[i]

\* MerkleTree::set_hash that flips the node's bit instead of setting it
MerkleTree_set_hash_Flip(t, index, arr) ==
    IF arr.len # OutputSize \/ index < 0 \/ index >= Len(t.hashes)
    THEN [panic |-> TRUE, tree |-> t]
    ELSE [panic |-> FALSE,
          tree |-> [t EXCEPT !.hashes[index + 1] = arr.bytes,
                             !.bitmap[index + 1] = ~t.bitmap[index + 1]]]

\* MerkleTree::set_hash: copy_from_slice panics unless the array has the
\* node's length, and so does a node index outside the hash buffer
MerkleTree_set_hash(t, index, arr) ==
    IF arr.len # OutputSize \/ index < 0 \/ index >= Len(t.hashes)
    THEN [panic |-> TRUE, tree |-> t]
    ELSE [panic |-> FALSE,
          tree |-> [t EXCEPT !.hashes[index + 1] = arr.bytes,
                             !.bitmap[index + 1] = TRUE]]

\* MerkleTree::build_down from the level of `il`, `steps` levels to go
RECURSIVE build_down_loop(_, _, _)
build_down_loop(t, il, steps) ==
    IF steps = 0 THEN [panic |-> FALSE, tree |-> t]
    ELSE
    LET sib == IndexedLevel_siblings(il)
        left == sib[1]
        right == sib[2]
        missing == \/ ~MerkleTree_has(t, left)
                   \/ (right # -1 /\ ~MerkleTree_has(t, right))
        fed == IF right = -1 THEN <<MerkleTree_get_hash(t, left)>>
               ELSE <<MerkleTree_get_hash(t, left), MerkleTree_get_hash(t, right)>>
        arr == HashArray(Digest(fed))
        r == MerkleTree_set_hash(t, IndexedLevel_parent(il), arr)
        down == IndexedLevel_down(il)
    IN  IF missing THEN [panic |-> FALSE, tree |-> t]
        ELSE IF r.panic \/ ~down.some THEN [panic |-> TRUE, tree |-> r.tree]
        ELSE build_down_loop(r.tree, down, steps - 1)

\* MerkleTree::build_down that stops after the parents of the leaves
MerkleTree_build_down_OneLevel(t, leaf_index) ==
    LET il == IndexedLevel_new(leaf_index, 0, t.leaf_count)
    IN  IF ~il.some THEN [panic |-> TRUE, tree |-> t]
        ELSE build_down_loop(t, il, 1)

MerkleTree_build_down(t, leaf_index) ==
    LET il == IndexedLevel_new(leaf_index, 0, t.leaf_count)
    IN  IF ~il.some THEN [panic |-> TRUE, tree |-> t]
        ELSE build_down_loop(t, il, t.height - 1)

\* MerkleTree::set that stores the leaf and forgets build_down
MerkleTree_set_NoBuildDown(t, leaf_index, arr) ==
    IF leaf_index >= t.leaf_count
    THEN [kind |-> "LeafIndexOutOfRange", tree |-> t]
    ELSE LET s == MerkleTree_set_hash(t, leaf_index, arr)
         IN  IF s.panic THEN [kind |-> "panic", tree |-> t]
             ELSE [kind |-> "Ok", tree |-> s.tree]

\* MerkleTree::set that calls build_down before it stores the leaf
MerkleTree_set_PropagateFirst(t, leaf_index, arr) ==
    IF leaf_index >= t.leaf_count
    THEN [kind |-> "LeafIndexOutOfRange", tree |-> t]
    ELSE LET b == MerkleTree_build_down(t, leaf_index)
             s == MerkleTree_set_hash(b.tree, leaf_index, arr)
         IN  IF b.panic THEN [kind |-> "panic", tree |-> b.tree]
             ELSE IF s.panic THEN [kind |-> "panic", tree |-> b.tree]
             ELSE [kind |-> "Ok", tree |-> s.tree]

\* MerkleTree::set
MerkleTree_set(t, leaf_index, arr) ==
    IF leaf_index >= t.leaf_count
    THEN [kind |-> "LeafIndexOutOfRange", tree |-> t]
    ELSE LET s == MerkleTree_set_hash(t, leaf_index, arr)
             b == MerkleTree_build_down(s.tree, leaf_index)
         IN  IF s.panic THEN [kind |-> "panic", tree |-> t]
             ELSE IF b.panic THEN [kind |-> "panic", tree |-> b.tree]
             ELSE [kind |-> "Ok", tree |-> b.tree]

\* MerkleTree::build: build_down from every second leaf
RECURSIVE build_from(_, _)
build_from(t, i) ==
    IF i >= t.leaf_count THEN [panic |-> FALSE, tree |-> t]
    ELSE LET b == MerkleTree_build_down(t, i)
         IN  IF b.panic THEN b ELSE build_from(b.tree, i + 2)

\* MerkleTree::build that propagates from the first leaf only
MerkleTree_build_FirstLeaf(t) == MerkleTree_build_down(t, 0)

MerkleTree_build(t) == build_from(t, 0)

\* build_leaves: one digest per block the iterator yields
build_leaves(blocks) == [i \in 1..Len(blocks) |-> Digest(<<blocks[i]>>)]

\* From<I> for MerkleTree
MerkleTree_from(blocks) ==
    LET leaves == build_leaves(blocks)
        leaf_count == Len(leaves)
        ts == tree_size(leaf_count)
        t == [bitmap |-> [i \in 1..ts.size |-> i <= leaf_count],
              hashes |-> [i \in 1..ts.size |->
                             IF i <= leaf_count THEN leaves[i] ELSE ZeroHash],
              height |-> ts.height, leaf_count |-> leaf_count]
    IN  MerkleTree_build(t)

\* ------------------------------------------------------------------ proof

None == [some |-> FALSE, h |-> <<>>]
Some(h) == [some |-> TRUE, h |-> h]

NoProof == [leaf_index |-> 0, leaf_hash |-> <<>>, path |-> <<>>, partial |-> FALSE]

\* the loop of MerkleTree::prove: the path from the level of `il` upwards,
\* cut at the first sibling that exists and is not set
RECURSIVE prove_loop(_, _, _, _)
prove_loop(t, il, steps, path) ==
    IF steps = 0 THEN [panic |-> FALSE, path |-> path]
    ELSE
    LET index == IndexedLevel_sibling(il)
        down == IndexedLevel_down(il)
        entry == IF index = -1 THEN None ELSE Some(MerkleTree_get_hash(t, index))
    IN  IF index # -1 /\ ~MerkleTree_has(t, index)
        THEN [panic |-> FALSE, path |-> path]
        ELSE IF ~down.some THEN [panic |-> TRUE, path |-> path]
        ELSE prove_loop(t, down, steps - 1, Append(path, entry))

\* MerkleTree::prove
MerkleTree_prove(t, leaf_index) ==
    LET il == IndexedLevel_new(leaf_index, 0, t.leaf_count)
        r == prove_loop(t, il, t.height, <<>>)
    IN  IF ~il.some \/ r.panic THEN [kind |-> "panic", proof |-> NoProof]
        ELSE IF Len(r.path) < 2 THEN [kind |-> "InvalidLength", proof |-> NoProof]
        ELSE [kind |-> "Ok",
              proof |-> [leaf_index |-> leaf_index,
                         leaf_hash |-> MerkleTree_get_hash(t, leaf_index),
                         path |-> r.path,
                         partial |-> ~MerkleTree_built(t)]]

Min(a, b) == IF a < b THEN a ELSE b

\* Proof::validate comparing one path entry too few
Proof_validate_ShortPrefix(self, other) ==
    LET end == Min(Len(self.path), Len(other.path)) - 1
    IN  IF self.leaf_index # other.leaf_index THEN "InvalidIndex"
        ELSE IF ~self.partial /\ ~other.partial /\ Len(self.path) # Len(other.path)
             THEN "InvalidLength"
        ELSE IF SubSeq(self.path, 1, end) # SubSeq(other.path, 1, end)
             THEN "InvalidHash"
        ELSE IF self.partial # other.partial THEN "PartialProof"
        ELSE "Ok"

\* Proof::validate that never compares the partial flags
Proof_validate_NoFlag(self, other) ==
    LET end == Min(Len(self.path), Len(other.path))
    IN  IF self.leaf_index # other.leaf_index THEN "InvalidIndex"
        ELSE IF ~self.partial /\ ~other.partial /\ Len(self.path) # Len(other.path)
             THEN "InvalidLength"
        ELSE IF SubSeq(self.path, 1, end) # SubSeq(other.path, 1, end)
             THEN "InvalidHash"
        ELSE "Ok"

\* Proof::validate that compares the paths of complete proofs only
Proof_validate_CompleteOnly(self, other) ==
    LET end == Min(Len(self.path), Len(other.path))
    IN  IF self.leaf_index # other.leaf_index THEN "InvalidIndex"
        ELSE IF ~self.partial /\ ~other.partial /\ Len(self.path) # Len(other.path)
             THEN "InvalidLength"
        ELSE IF ~self.partial /\ ~other.partial
                /\ SubSeq(self.path, 1, end) # SubSeq(other.path, 1, end)
             THEN "InvalidHash"
        ELSE IF self.partial # other.partial THEN "PartialProof"
        ELSE "Ok"

\* Proof::validate: self is the local proof, other the one received
Proof_validate(self, other) ==
    LET end == Min(Len(self.path), Len(other.path))
    IN  IF self.leaf_index # other.leaf_index THEN "InvalidIndex"
        ELSE IF ~self.partial /\ ~other.partial /\ Len(self.path) # Len(other.path)
             THEN "InvalidLength"
        ELSE IF SubSeq(self.path, 1, end) # SubSeq(other.path, 1, end)
             THEN "InvalidHash"
        ELSE IF self.partial # other.partial THEN "PartialProof"
        ELSE "Ok"

\* MerkleTree::verify with the leaf hash test inverted
MerkleTree_verify_EqSlip(t, proof) ==
    IF proof.leaf_index >= t.leaf_count THEN "IndexOutOfRange"
    ELSE IF Len(proof.path) < 2 THEN "InvalidLength"
    ELSE IF MerkleTree_get_hash(t, proof.leaf_index) = proof.leaf_hash THEN "InvalidHash"
    ELSE LET local == MerkleTree_prove(t, proof.leaf_index)
         IN  IF local.kind # "Ok" THEN local.kind
             ELSE Proof_validate(local.proof, proof)

\* MerkleTree::verify that takes the received flag for the local one
MerkleTree_verify_TrustFlag(t, proof) ==
    IF proof.leaf_index >= t.leaf_count THEN "IndexOutOfRange"
    ELSE IF Len(proof.path) < 2 THEN "InvalidLength"
    ELSE IF MerkleTree_get_hash(t, proof.leaf_index) # proof.leaf_hash THEN "InvalidHash"
    ELSE LET local == MerkleTree_prove(t, proof.leaf_index)
         IN  IF local.kind # "Ok" THEN local.kind
             ELSE Proof_validate([local.proof EXCEPT !.partial = proof.partial], proof)

\* MerkleTree::verify comparing the leaf hash before the path length
MerkleTree_verify_HashFirst(t, proof) ==
    IF proof.leaf_index >= t.leaf_count THEN "IndexOutOfRange"
    ELSE IF MerkleTree_get_hash(t, proof.leaf_index) # proof.leaf_hash THEN "InvalidHash"
    ELSE IF Len(proof.path) < 2 THEN "InvalidLength"
    ELSE LET local == MerkleTree_prove(t, proof.leaf_index)
         IN  IF local.kind # "Ok" THEN local.kind
             ELSE Proof_validate(local.proof, proof)

\* MerkleTree::verify
MerkleTree_verify(t, proof) ==
    IF proof.leaf_index >= t.leaf_count THEN "IndexOutOfRange"
    ELSE IF Len(proof.path) < 2 THEN "InvalidLength"
    ELSE IF MerkleTree_get_hash(t, proof.leaf_index) # proof.leaf_hash THEN "InvalidHash"
    ELSE LET local == MerkleTree_prove(t, proof.leaf_index)
         IN  IF local.kind # "Ok" THEN local.kind
             ELSE Proof_validate(local.proof, proof)

\* ------------------------------------------------------- generic storage

NoStorage == [resources |-> <<>>, total_size |-> 0]
NoChunks == [bitmap |-> <<>>, chunk_size |-> 0, chunk_count |-> 0,
             piece_size |-> 0, piece_count |-> 0, chunks_in_piece |-> 0]
NoTree == [bitmap |-> <<>>, hashes |-> <<>>, height |-> 0, leaf_count |-> 0]
NoDisk == [l \in {} |-> <<>>]

\* StorageMapActor::new, and a router that has started no worker
NewActor == [holder |-> "none", storage |-> NoStorage, chunks |-> NoChunks,
             tree |-> NoTree]
NoRouter == [running |-> TRUE, actors |-> [id \in {} |-> NewActor]]
NoBlobs == [path \in {} |-> <<>>]

RECURSIVE SumSizes(_)
SumSizes(items) ==
    IF items = <<>> THEN 0 ELSE Head(items).size + SumSizes(Tail(items))

\* GenericStorage::add over the items in order (try_for_each): Resource::open
\* when the location exists, else Resource::create of `size` zero bytes; a
\* resource whose size is not the declared one ends the construction.  The
\* IndexMap keeps one entry per location, at the place of its first insert.
RECURSIVE AddItems(_, _, _)
AddItems(files, rs, items) ==
    IF items = <<>> THEN [kind |-> "Ok", files |-> files, resources |-> rs]
    ELSE
    LET it == Head(items)
        exists == it.loc \in DOMAIN files
        files1 == IF exists THEN files
                  ELSE [l \in DOMAIN files \cup {it.loc} |->
                           IF l = it.loc THEN Fill(it.size, 0) ELSE files[l]]
        size == RLen(files1[it.loc])
        known == \E k \in 1..Len(rs) : rs[k].loc = it.loc
        rs1 == IF known THEN rs ELSE Append(rs, [loc |-> it.loc, size |-> size])
    IN  IF size # it.size
        THEN [kind |-> "SizeMismatch", files |-> files1, resources |-> rs]
        ELSE AddItems(files1, rs1, Tail(items))

\* GenericStorage::new
GenericStorage_new(files, items) ==
    LET Added(r) ==
            [kind |-> r.kind, files |-> r.files,
             storage |-> [resources |-> r.resources, total_size |-> SumSizes(items)]]
    IN  Added(AddItems(files, <<>>, items))

\* ------------------------------------------------------- storage iterator

\* ------------------------------------------------------- storage iterator

\* the bytes of a buffer as the digest is fed them
RECURSIVE Bytes(_)
Bytes(d) == IF d = <<>> THEN <<>> ELSE <<Head(d).n, Head(d).v>> \o Bytes(Tail(d))

\* StorageIterator::new
StorageIterator_new(size) == [size |-> size, offset |-> 0, buf |-> Fill(size, 0)]

\* StorageIterator::advance
StorageIterator_advance(files, st, it) ==
    LET Match(read) ==
            IF read.kind = "panic" THEN [panic |-> TRUE, it |-> it]
            ELSE IF read.kind = "Ok"
            THEN [panic |-> FALSE,
                  it |-> [it EXCEPT !.offset = it.offset + read.n,
                                    !.buf = IF read.n # it.size
                                            THEN RTake(read.buf, read.n)
                                            ELSE read.buf]]
            ELSE [panic |-> FALSE,
                  it |-> [it EXCEPT !.offset = st.total_size, !.buf = read.buf]]
    IN  Match(GenericStorage_read(files, st, it.offset, it.buf))

\* StorageIterator::get
StorageIterator_get(it) == IF it.offset >= it.size THEN None ELSE Some(it.buf)

\* `while let Some(data) = iter.next()` of build_leaves over the storage
\* iterator: the blocks yielded; the loop never ends once the iterator
\* comes back to a state it has been in while still yielding
RECURSIVE IterBlocks(_, _, _, _, _)
IterBlocks(files, st, it, seen, blocks) ==
    LET Item(a, item) ==
            IF a.panic THEN [kind |-> "panic", blocks |-> blocks]
            ELSE IF ~item.some THEN [kind |-> "Ok", blocks |-> blocks]
            ELSE IF a.it \in seen THEN [kind |-> "diverged", blocks |-> blocks]
            ELSE IterBlocks(files, st, a.it, seen \cup {a.it},
                            Append(blocks, Bytes(item.h)))
        Advanced(a) == Item(a, StorageIterator_get(a.it))
    IN  Advanced(StorageIterator_advance(files, st, it))

\* ---------------------------------------------------------- StorageSpec
\* The sharded storage on its own: Storage::new, then reads and writes.

\* the files found on the disk before the program runs: none, or one file
\* per location holding distinct bytes
SeedSize(l) == ((l - 1) % MaxResSize) + 1
SeedBytes(l) == RNorm([j \in 1..SeedSize(l) |-> Run(1, 10 * l + j)])
SeededDisk == [l \in 1..MaxRes |-> SeedBytes(l)]

\* item lists: locations 1, 2, ... in order, each with a declared size
DistinctLists ==
    UNION {{[k \in 1..n |-> [loc |-> k, size |-> sz[k]]] :
               sz \in [1..n -> 0..MaxResSize]} : n \in 0..MaxRes}

\* and the lists of two items that name one location twice
ItemLists ==
    DistinctLists
    \cup {<<[loc |-> 1, size |-> a], [loc |-> 1, size |-> b]>> :
             a, b \in 0..MaxResSize}

\* buffers a caller writes from: distinct bytes, so a misplaced byte shows
WriteBytes(len) == RNorm([j \in 1..len |-> Run(1, 100 + j)])

StorageInit ==
    /\ overflow_checks \in BOOLEAN
    /\ disk \in {NoDisk, SeededDisk}
    /\ storage = NoStorage
    /\ chunks = NoChunks
    /\ tree = NoTree
    /\ holder = "none"
    /\ written = FALSE
    /\ router = NoRouter
    /\ blobs = NoBlobs
    /\ last = [op |-> "init"]

StorageNew(items) ==
    /\ holder = "none"
    /\ \E r \in {GenericStorage_new(disk, items)} :
           /\ disk' = r.files
           /\ storage' = IF r.kind = "Ok" THEN r.storage ELSE NoStorage
           /\ holder' = IF r.kind = "Ok" THEN "some" ELSE "none"
           /\ last' = [op |-> "new", kind |-> r.kind, items |-> items]
    /\ UNCHANGED <<router, blobs, overflow_checks, chunks, tree, written>>

\* GenericStorage::read into a zeroed buffer of `len` bytes; `view` is the
\* outcome of the self.view(offset, into.len()) the read starts with
StorageRead(offset, len) ==
    /\ holder = "some"
    /\ \E r \in {GenericStorage_read(disk, storage, offset, Fill(len, 0))} :
       \E v \in {GenericStorage_view(storage, offset, len)} :
           /\ holder' = IF r.kind = "panic" THEN "aborted" ELSE "some"
           /\ last' = [op |-> "read", offset |-> offset, len |-> len,
                       kind |-> r.kind, n |-> r.n, buf |-> r.buf,
                       view |-> v]
    /\ UNCHANGED <<router, blobs, overflow_checks, disk, storage, chunks, tree, written>>

StorageWrite(offset, len) ==
    /\ holder = "some"
    /\ ~written                   \* the scenarios hold one write
    /\ written' = TRUE
    /\ \E r \in {GenericStorage_write(disk, storage, offset, WriteBytes(len))} :
           /\ disk' = r.files
           /\ holder' = IF r.kind = "panic" THEN "aborted" ELSE "some"
           /\ last' = [op |-> "write", offset |-> offset, len |-> len,
                       kind |-> r.kind, n |-> r.n, before |-> disk]
    /\ UNCHANGED <<router, blobs, overflow_checks, storage, chunks, tree>>

\* Storage::iter(block_size) and `while let Some(data) = iter.next()` over
\* it, as test_iter and build_leaves run it
StorageIter(block_size) ==
    /\ holder = "some"
    /\ \E it \in {StorageIterator_new(block_size)} :
       \E r \in {IterBlocks(disk, storage, it, {it}, <<>>)} :
           /\ holder' = CASE r.kind = "panic" -> "aborted"
                          [] r.kind = "diverged" -> "diverged"
                          [] OTHER -> "some"
           /\ last' = [op |-> "iter", size |-> block_size, kind |-> r.kind,
                       blocks |-> r.blocks]
    /\ UNCHANGED <<router, blobs, overflow_checks, disk, storage, chunks, tree, written>>

\* the requests tried on a storage: every range inside the address space,
\* and those that end or start one byte past it
Offsets == 0..(storage.total_size + 1)
Lengths(offset) ==
    0..((IF offset < storage.total_size THEN storage.total_size - offset ELSE 0) + 1)

StorageNext ==
    \/ \E items \in ItemLists : StorageNew(items)
    \/ \E offset \in Offsets : \E len \in Lengths(offset) : StorageRead(offset, len)
    \/ \E offset \in Offsets : \E len \in Lengths(offset) : StorageWrite(offset, len)
    \/ \E block_size \in 1..MaxBlock : StorageIter(block_size)

StorageSpec == StorageInit /\ [][StorageNext]_vars

\* C1: every read of a range inside the address space succeeds, returns the
\* length asked for and fills the buffer with the bytes at the logical
\* addresses [offset, offset + length).
C1_ReadInRange ==
    (last.op = "read" /\ last.offset + last.len <= storage.total_size)
        => /\ last.kind = "Ok"
           /\ last.n = last.len
           /\ last.buf = RSlice(Logical(disk, storage.resources), last.offset, last.len)

\* the last request was a write inside the address space that returned Ok
WroteInRange ==
    /\ last.op = "write" /\ last.kind = "Ok"
    /\ last.offset + last.len <= storage.total_size

\* C18: after a write of x at an in-range offset o has succeeded, a read of
\* |x| bytes at o returns exactly x, and every byte of the address space
\* outside [o, o + |x|) has the value it had before the write.
C18_WriteThenRead ==
    WroteInRange =>
        LET Back(rd) == /\ rd.kind = "Ok" /\ rd.n = last.len
                        /\ rd.buf = WriteBytes(last.len)
        IN  /\ last.n = last.len
            /\ Back(GenericStorage_read(disk, storage, last.offset, Fill(last.len, 0)))
            /\ RTake(Logical(disk, storage.resources), last.offset)
                   = RTake(Logical(last.before, storage.resources), last.offset)
            /\ RDrop(Logical(disk, storage.resources), last.offset + last.len)
                   = RDrop(Logical(last.before, storage.resources),
                           last.offset + last.len)

\* a write of two bytes at offset 1 went through over two newly created
\* resources of two bytes: one byte into each, the first and the last byte
\* of the address space left alone
C18_Witness ==
    /\ WroteInRange
    /\ last.offset = 1 /\ last.len = 2
    /\ Len(storage.resources) = 2 /\ storage.total_size = 4
    /\ Logical(last.before, storage.resources) = Fill(4, 0)
    /\ Logical(disk, storage.resources)
           = RNorm(<<Run(1, 0)>> \o WriteBytes(2) \o <<Run(1, 0)>>)

\* the last request was a read or a write of at least one byte that ends
\* past the address space
PastTheEnd ==
    /\ last.op \in {"read", "write"}
    /\ last.len > 0
    /\ last.offset + last.len > storage.total_size

\* C19: a read or a write of at least one byte that ends past the address
\* space, of an empty storage too, returns a view-build error, does not
\* abort, and a write changes no byte of any resource.
C19_PastTheEndRefused ==
    PastTheEnd =>
        /\ last.kind = "ViewBuildError"
        /\ holder = "some"
        /\ last.op = "write" => disk = last.before

\* C20: a read or a write with an empty buffer returns Ok(0) and touches
\* no resource, at whatever offset of the address space it is made.
C20_ZeroLength ==
    (/\ last.op \in {"read", "write"} /\ last.len = 0
     /\ last.offset <= storage.total_size)
        => /\ last.kind = "Ok"
           /\ last.n = 0
           /\ last.op = "write" => disk = last.before

\* the place of the resource at `loc` in the resource list
ResourceIndex(loc) ==
    CHOOSE k \in 1..Len(storage.resources) : storage.resources[k].loc = loc

RECURSIVE SumShards(_)
SumShards(view) ==
    IF view = <<>> THEN 0
    ELSE (Head(view).shard.end - Head(view).shard.start) + SumShards(Tail(view))

\* C21: in every view that is built for (start, length), the shard sizes
\* sum to length, the shards follow the order of the resources, and every
\* shard has 0 <= start <= end <= size of its resource.
C21_ViewWellFormed ==
    (last.op = "read" /\ last.view.kind = "Ok") =>
        /\ SumShards(last.view.view) = last.len
        /\ \A k \in 1..Len(last.view.view) :
               /\ 0 <= last.view.view[k].shard.start
               /\ last.view.view[k].shard.start <= last.view.view[k].shard.end
               /\ last.view.view[k].shard.end
                      <= storage.resources[ResourceIndex(last.view.view[k].loc)].size
        /\ \A j, k \in 1..Len(last.view.view) :
               j < k => ResourceIndex(last.view.view[j].loc)
                           <= ResourceIndex(last.view.view[k].loc)

\* the view of the specified construction for the request [start, end):
\* `offset` is the sum of the sizes walked, `consumed` the bytes placed
RECURSIVE SpecifiedView(_, _, _, _, _)
SpecifiedView(rs, offset, consumed, start, end) ==
    LET Place(loc, s, from, c) ==
            (IF c = 0 THEN <<>>
             ELSE <<[loc |-> loc, shard |-> [start |-> from, end |-> from + c]]>>)
            \o SpecifiedView(Tail(rs), offset + s, consumed + c, start, end)
        Emit(r, from) ==
            Place(r.loc, r.size, from, Min(r.size - from, (end - start) - consumed))
        Walk(r) ==
            IF offset >= end THEN <<>>
            ELSE IF r.size = 0 \/ offset + r.size <= start
            THEN SpecifiedView(Tail(rs), offset + r.size, consumed, start, end)
            ELSE Emit(r, IF start > offset THEN start - offset ELSE 0)
    IN  IF rs = <<>> THEN <<>> ELSE Walk(Head(rs))

\* C22: for every request (start, length) with start + length <= total_size
\* the view that is built is the view of the specified construction: one
\* entry [max(0, start - offset), .. + c) per resource that overlaps the
\* request in a non-empty range, and no entry for any other resource.
C22_ViewIsSpecified ==
    (last.op = "read" /\ last.offset + last.len <= storage.total_size) =>
        /\ last.view.kind = "Ok"
        /\ last.view.view = SpecifiedView(storage.resources, 0, 0, last.offset,
                                          last.offset + last.len)

\* ceil(total_size / block_size), the upper bound of size_hint
BlockCount(block_size) == (storage.total_size + block_size - 1) \div block_size

\* the blocks of the storage bytes [0, total_size): block k holds the bytes
\* from k * block_size on, block_size of them or what is left
ExpectedBlocks(block_size) ==
    [k \in 1..BlockCount(block_size) |->
        Bytes(RSlice(Logical(disk, storage.resources), (k - 1) * block_size,
                     Min(block_size, storage.total_size - (k - 1) * block_size)))]

\* C23: iter(block_size) yields ceil(total_size / block_size) blocks of at
\* most block_size bytes, in address order and without overlap, whose
\* concatenation is the storage bytes [0, total_size).
C23_IterBlocks ==
    last.op = "iter" =>
        /\ last.kind = "Ok"
        /\ last.blocks = ExpectedBlocks(last.size)

\* C24: the sequence produced by iter(block_size) is finite: after
\* finitely many calls of next() the iterator returns None.
C24_IterFinite ==
    last.op = "iter" => last.kind # "diverged"

\* C25: in every storage that Storage::new produces, total_size is the sum
\* of the sizes of the resources the storage holds, and the storage holds
\* one resource per input item, in input order.
C25_TotalSize ==
    (last.op = "new" /\ last.kind = "Ok") =>
        /\ storage.total_size = SumSizes(storage.resources)
        /\ Len(storage.resources) = Len(last.items)
        /\ \A k \in 1..Len(storage.resources) :
               /\ storage.resources[k].loc = last.items[k].loc
               /\ storage.resources[k].size = last.items[k].size

\* -------------------------------------------------------------- TreeSpec
\* The Merkle tree on its own: built from blocks (From<I>) or created empty
\* (MerkleTree::new), then set, prove and verify requests.

\* the blocks an iterator yields, each named by its contents
Blocks == {<<1>>, <<2>>}

BlockLists == UNION {[1..n -> Blocks] : n \in 0..MaxLeaves}

\* the hashes a caller hands to set: the digests of the blocks
LeafHashes == {Digest(<<b>>) : b \in Blocks}

\* proofs a peer may send for leaf i: the proof the tree itself generates,
\* and that proof with its leaf hash, one path entry or its partial flag
\* changed, or its last path entry dropped
OtherHashes == LeafHashes \cup {ZeroHash}
OtherEntries == {None, Some(ZeroHash)}

Mutations(p) ==
    {p}
    \cup {[p EXCEPT !.leaf_hash = h] : h \in OtherHashes}
    \cup {[p EXCEPT !.path[k] = e] : k \in 1..Len(p.path), e \in OtherEntries}
    \cup {[p EXCEPT !.partial = ~p.partial]}
    \cup {[p EXCEPT !.partial = b, !.path = SubSeq(p.path, 1, Len(p.path) - 1)] :
             b \in BOOLEAN}

\* a proof of full height for leaf i as a peer holding the whole tree sends
\* it: the local hash wherever the local tree has the sibling, the peer's
\* own hash `h` where the local node is not yet written, and the flag `b`
RECURSIVE PeerPath(_, _, _, _)
PeerPath(t, il, steps, h) ==
    IF steps = 0 THEN <<>>
    ELSE LET index == IndexedLevel_sibling(il)
             entry == IF index = -1 THEN None
                      ELSE IF MerkleTree_has(t, index)
                           THEN Some(MerkleTree_get_hash(t, index))
                      ELSE Some(h)
         IN  <<entry>> \o PeerPath(t, IndexedLevel_down(il), steps - 1, h)

PeerProofs(t, i) ==
    {[leaf_index |-> i, leaf_hash |-> MerkleTree_get_hash(t, i),
      path |-> PeerPath(t, IndexedLevel_new(i, 0, t.leaf_count), t.height, h),
      partial |-> b] : h \in LeafHashes, b \in BOOLEAN}

\* proofs made up by hand, failing several checks at once: one path entry
\* or two, any leaf hash, the first leaf or the index past the last leaf
FaultyProofs(t) ==
    {[leaf_index |-> i, leaf_hash |-> h, path |-> path, partial |-> TRUE] :
        i \in {0, t.leaf_count}, h \in OtherHashes,
        path \in {<<Some(ZeroHash)>>, <<Some(ZeroHash), Some(ZeroHash)>>}}

ProofCandidates(t) ==
    UNION {LET own == MerkleTree_prove(t, i)
           IN  (IF own.kind = "Ok" THEN Mutations(own.proof) ELSE {})
               \cup PeerProofs(t, i) : i \in 0..(t.leaf_count - 1)}
    \cup {[leaf_index |-> t.leaf_count, leaf_hash |-> ZeroHash,
           path |-> <<None, None>>, partial |-> b] : b \in BOOLEAN}
    \cup FaultyProofs(t)

\* the tree does no arithmetic that depends on the build profile
TreeInit ==
    /\ overflow_checks = TRUE
    /\ disk = NoDisk
    /\ storage = NoStorage
    /\ chunks = NoChunks
    /\ tree = NoTree
    /\ holder = "none"
    /\ written = FALSE
    /\ router = NoRouter
    /\ blobs = NoBlobs
    /\ last = [op |-> "init"]

TreeFrom(blocks) ==
    /\ holder = "none"
    /\ \E r \in {MerkleTree_from(blocks)} :
           /\ tree' = r.tree
           /\ holder' = IF r.panic THEN "aborted" ELSE "some"
           /\ last' = [op |-> "from", blocks |-> blocks,
                       kind |-> IF r.panic THEN "panic" ELSE "Ok"]
    /\ UNCHANGED <<router, blobs, overflow_checks, disk, storage, chunks, written>>

TreeNew(leaf_count) ==
    /\ holder = "none"
    /\ tree' = MerkleTree_new(leaf_count)
    /\ holder' = "some"
    /\ last' = [op |-> "new", kind |-> "Ok"]
    /\ UNCHANGED <<router, blobs, overflow_checks, disk, storage, chunks, written>>

TreeSet(leaf_index, hash) ==
    /\ holder = "some"
    /\ \E r \in {MerkleTree_set(tree, leaf_index, HashArray(hash))} :
           /\ tree' = r.tree
           /\ holder' = IF r.kind = "panic" THEN "aborted" ELSE "some"
           /\ last' = [op |-> "set", leaf_index |-> leaf_index, hash |-> hash,
                       kind |-> r.kind, before |-> tree]
    /\ UNCHANGED <<router, blobs, overflow_checks, disk, storage, chunks, written>>

TreeProve(leaf_index) ==
    /\ holder = "some"
    /\ \E r \in {MerkleTree_prove(tree, leaf_index)} :
           /\ holder' = IF r.kind = "panic" THEN "aborted" ELSE "some"
           /\ last' = [op |-> "prove", leaf_index |-> leaf_index,
                       kind |-> r.kind, proof |-> r.proof]
    /\ UNCHANGED <<router, blobs, overflow_checks, disk, storage, chunks, tree, written>>

TreeVerify(proof) ==
    /\ holder = "some"
    /\ \E kind \in {MerkleTree_verify(tree, proof)} :
           /\ holder' = IF kind = "panic" THEN "aborted" ELSE "some"
           /\ last' = [op |-> "verify", proof |-> proof, kind |-> kind]
    /\ UNCHANGED <<router, blobs, overflow_checks, disk, storage, chunks, tree, written>>

TreeNext ==
    \/ \E blocks \in BlockLists : TreeFrom(blocks)
    \/ \E leaf_count \in 0..MaxLeaves : TreeNew(leaf_count)
    \/ \E leaf_index \in 0..tree.leaf_count : \E hash \in LeafHashes :
           TreeSet(leaf_index, hash)
    \/ \E leaf_index \in 0..tree.leaf_count : TreeProve(leaf_index)
    \/ \E proof \in ProofCandidates(tree) : TreeVerify(proof)

TreeSpec == TreeInit /\ [][TreeNext]_vars

\* the proof the tree generates for the leaf a received proof names
LocalProof(q) == MerkleTree_prove(tree, q.leaf_index)

VerifiedInRange == last.op = "verify" /\ last.proof.leaf_index < tree.leaf_count

\* C8: on a fully built tree with at least one leaf, prove succeeds for every
\* leaf and verify accepts the proof that prove returns.
C8_ProofRoundTrip ==
    (MerkleTree_built(tree) /\ tree.leaf_count >= 1)
        => /\ (last.op = "prove" /\ last.leaf_index < tree.leaf_count)
                  => last.kind = "Ok"
           /\ (VerifiedInRange /\ LocalProof(last.proof).kind = "Ok"
               /\ last.proof = LocalProof(last.proof).proof)
                  => last.kind = "Ok"

C8_Witness ==
    /\ VerifiedInRange /\ MerkleTree_built(tree) /\ tree.leaf_count = 3
    /\ last.proof.leaf_index = 2
    /\ last.proof = LocalProof(last.proof).proof
    /\ last.kind = "Ok"

\* q is p with another leaf hash, or with exactly one path entry changed
TamperedFrom(q, p) ==
    /\ q.leaf_index = p.leaf_index /\ q.partial = p.partial
    /\ Len(q.path) = Len(p.path)
    /\ \/ q.leaf_hash # p.leaf_hash /\ q.path = p.path
       \/ /\ q.leaf_hash = p.leaf_hash
          /\ \E k \in 1..Len(p.path) :
                 /\ q.path[k] # p.path[k]
                 /\ \A j \in 1..Len(p.path) : j # k => q.path[j] = p.path[j]

\* C9: a proof returned by prove with its leaf hash or one path entry changed
\* is refused by verify with InvalidHash or InvalidLength.
C9_TamperDetected ==
    (VerifiedInRange /\ LocalProof(last.proof).kind = "Ok"
     /\ TamperedFrom(last.proof, LocalProof(last.proof).proof))
        => last.kind \in {"InvalidHash", "InvalidLength"}

C9_Witness ==
    /\ VerifiedInRange /\ LocalProof(last.proof).kind = "Ok"
    /\ TamperedFrom(last.proof, LocalProof(last.proof).proof)
    /\ last.proof.leaf_hash = LocalProof(last.proof).proof.leaf_hash
    /\ last.proof.path[Len(last.proof.path) - 1] #
           LocalProof(last.proof).proof.path[Len(last.proof.path) - 1]
    /\ ~MerkleTree_built(tree)
    /\ last.kind = "InvalidHash"

\* the path of q agrees with the local tree: no entry where the node has no
\* sibling, the local hash where the sibling is set locally, any hash where
\* the sibling is not yet written locally
RECURSIVE PathAgrees(_, _, _)
PathAgrees(t, il, path) ==
    IF path = <<>> THEN TRUE
    ELSE LET index == IndexedLevel_sibling(il)
         IN  /\ il.some
             /\ IF index = -1 THEN Head(path) = None
                ELSE IF MerkleTree_has(t, index)
                     THEN Head(path) = Some(MerkleTree_get_hash(t, index))
                ELSE Head(path).some
             /\ PathAgrees(t, IndexedLevel_down(il), Tail(path))

ConsistentWithLocal(t, q) ==
    /\ q.leaf_index < t.leaf_count
    /\ q.leaf_hash = MerkleTree_get_hash(t, q.leaf_index)
    /\ Len(q.path) >= 2 /\ Len(q.path) <= t.height
    /\ PathAgrees(t, IndexedLevel_new(q.leaf_index, 0, t.leaf_count), q.path)

ForgedComplete ==
    /\ last.op = "verify" /\ ~MerkleTree_built(tree)
    /\ ~last.proof.partial
    /\ ConsistentWithLocal(tree, last.proof)

\* C10 as claimed: on a tree that is not fully built, a proof that claims
\* partial = false and otherwise agrees with the local hashes is answered
\* PartialProof.
C10_ForgedIsPartialProof == ForgedComplete => last.kind = "PartialProof"

\* C10 as amended: it is answered PartialProof when the local tree can
\* itself generate a proof for that leaf, and InvalidLength when it cannot
\* (fewer than two path entries before the first sibling not yet written).
C10_ForgedRefused ==
    ForgedComplete =>
        /\ LocalProof(last.proof).kind \in {"Ok", "InvalidLength"}
        /\ LocalProof(last.proof).kind = "Ok" => last.kind = "PartialProof"
        /\ LocalProof(last.proof).kind = "InvalidLength" => last.kind = "InvalidLength"

C10_Witness ==
    /\ ForgedComplete
    /\ LocalProof(last.proof).kind = "Ok"
    /\ Len(last.proof.path) > Len(LocalProof(last.proof).proof.path)
    /\ MerkleTree_has(tree, last.proof.leaf_index)
    /\ last.kind = "PartialProof"

\* q is p marked partial with its last path entry dropped
Truncated(q, p) ==
    /\ q.leaf_index = p.leaf_index /\ q.leaf_hash = p.leaf_hash
    /\ q.partial
    /\ q.path = SubSeq(p.path, 1, Len(p.path) - 1)

\* the last request verified, on a fully built tree, a proof of that tree
\* marked partial and one entry short
TruncatedOnBuilt ==
    /\ VerifiedInRange /\ MerkleTree_built(tree) /\ tree.leaf_count >= 1
    /\ LocalProof(last.proof).kind = "Ok"
    /\ Truncated(last.proof, LocalProof(last.proof).proof)

\* C11 as claimed: on every fully built tree, a proof of the tree marked
\* partial, with its last path entry dropped, is answered PartialProof.
C11_TruncatedIsPartialProof == TruncatedOnBuilt => last.kind = "PartialProof"

\* C11 as amended: it is answered PartialProof when at least two path
\* entries remain (trees of height 3 and more, that is of 3 leaves and
\* more), and InvalidLength on the trees of height 2 (1 or 2 leaves).
C11_TruncatedRefused ==
    TruncatedOnBuilt =>
        /\ tree.height >= 3 <=> tree.leaf_count >= 3
        /\ tree.height >= 3 => last.kind = "PartialProof"
        /\ tree.height < 3 => last.kind = "InvalidLength"

\* a truncated proof for the odd-tail leaf of a built five-leaf tree was
\* answered PartialProof
C11_Witness ==
    /\ TruncatedOnBuilt
    /\ tree.leaf_count = 5 /\ last.proof.leaf_index = 4
    /\ Len(last.proof.path) = tree.height - 1
    /\ last.kind = "PartialProof"

\* the answer of the first check of verify that the proof q fails
FirstFailure(q) ==
    IF q.leaf_index >= tree.leaf_count THEN "IndexOutOfRange"
    ELSE IF Len(q.path) < 2 THEN "InvalidLength"
    ELSE IF MerkleTree_get_hash(tree, q.leaf_index) # q.leaf_hash THEN "InvalidHash"
    ELSE "none"

\* C12: verify answers with the first check that fails, in the order leaf
\* index (IndexOutOfRange), path length (InvalidLength), leaf hash
\* (InvalidHash); only a proof that passes the three is compared with the
\* proof generated locally, and then the answer is what generating and
\* validating give.
C12_CheckOrder ==
    last.op = "verify" =>
        /\ FirstFailure(last.proof) # "none" => last.kind = FirstFailure(last.proof)
        /\ FirstFailure(last.proof) = "none" =>
               /\ LocalProof(last.proof).kind # "panic"
               /\ LocalProof(last.proof).kind # "Ok"
                      => last.kind = LocalProof(last.proof).kind
               /\ LocalProof(last.proof).kind = "Ok"
                      => last.kind = Proof_validate(LocalProof(last.proof).proof, last.proof)

\* a proof with one path entry and a leaf hash other than the stored one,
\* for a leaf for which the tree cannot generate a proof itself, was
\* answered InvalidLength
C12_Witness ==
    /\ VerifiedInRange
    /\ Len(last.proof.path) = 1
    /\ MerkleTree_has(tree, last.proof.leaf_index)
    /\ MerkleTree_get_hash(tree, last.proof.leaf_index) # last.proof.leaf_hash
    /\ LocalProof(last.proof).kind = "InvalidLength"
    /\ last.kind = "InvalidLength"

\* the levels of a tree of leaf_count leaves, leaves first: level k + 1 has
\* one node for every two of level k and starts where level k ends
RECURSIVE LevelsFrom(_, _, _)
LevelsFrom(start, n, levels) ==
    IF levels = 0 THEN <<>>
    ELSE <<[start |-> start, n |-> n]>>
         \o LevelsFrom(start + n, (n + 1) \div 2, levels - 1)

\* the (parent, left, right) triples of the tree, right = -1 under a parent
\* whose only child is the odd-tail node of its level
Families(t) ==
    LET lv == LevelsFrom(0, t.leaf_count, t.height)
    IN  UNION {{[p |-> lv[k + 1].start + j,
                 l |-> lv[k].start + 2 * j,
                 r |-> IF 2 * j + 1 < lv[k].n THEN lv[k].start + 2 * j + 1 ELSE -1] :
                   j \in 0..(lv[k + 1].n - 1)} :
               k \in 1..(t.height - 1)}

\* the node p holds the digest of its children
DigestOfChildren(t, f) ==
    MerkleTree_get_hash(t, f.p) =
        IF f.r = -1 THEN Digest(<<MerkleTree_get_hash(t, f.l)>>)
        ELSE Digest(<<MerkleTree_get_hash(t, f.l), MerkleTree_get_hash(t, f.r)>>)

\* C13: in every state of a tree, whatever leaves were set and set again,
\* a set internal node whose children are set holds the digest of their
\* hashes: D(left || right), or D(left) over an odd-tail node.
C13_NodesAreDigests ==
    tree.leaf_count >= 1 =>
        \A f \in Families(tree) :
            (/\ MerkleTree_has(tree, f.p) /\ MerkleTree_has(tree, f.l)
             /\ (f.r # -1 => MerkleTree_has(tree, f.r)))
                => DigestOfChildren(tree, f)

\* a leaf of a fully built tree of five leaves was set again, with another
\* hash than it had
C13_Witness ==
    /\ last.op = "set" /\ last.kind = "Ok"
    /\ tree.leaf_count = 5 /\ MerkleTree_built(tree)
    /\ MerkleTree_built(last.before)
    /\ MerkleTree_get_hash(last.before, last.leaf_index) # last.hash
    /\ \E f \in Families(tree) : f.r = -1 /\ f.l # 4

\* the level above a level of hashes: the digest of each pair, and of the
\* last hash alone when their number is odd
RECURSIVE PairUp(_)
PairUp(hs) ==
    IF hs = <<>> THEN <<>>
    ELSE IF Len(hs) = 1 THEN <<Digest(<<hs[1]>>)>>
    ELSE <<Digest(<<hs[1], hs[2]>>)>> \o PairUp(SubSeq(hs, 3, Len(hs)))

\* all the levels over the leaf hashes, leaves first, up to the single root
RECURSIVE LevelsOver(_)
LevelsOver(hs) ==
    IF Len(hs) = 1 THEN <<hs>> ELSE <<hs>> \o LevelsOver(PairUp(hs))

\* a lone leaf gets a root of its own
ExpectedLevels(leaves) ==
    IF Len(leaves) = 1 THEN <<leaves, PairUp(leaves)>> ELSE LevelsOver(leaves)

\* C14: a tree built from L >= 1 blocks has L leaves, leaf i is the digest
\* of block i, every node is set, and the hash buffer holds the levels one
\* after the other, each the pairwise digests of the one below.
C14_BuiltFromBlocks ==
    (last.op = "from" /\ Len(last.blocks) >= 1) =>
        /\ last.kind = "Ok"
        /\ tree.leaf_count = Len(last.blocks)
        /\ \A i \in 1..Len(last.blocks) :
               MerkleTree_get_hash(tree, i - 1) = Digest(<<last.blocks[i]>>)
        /\ MerkleTree_built(tree)
        /\ tree.height = Len(ExpectedLevels(build_leaves(last.blocks)))
        /\ tree.hashes = Flatten(ExpectedLevels(build_leaves(last.blocks)))
        /\ Len(tree.bitmap) = Len(tree.hashes)

\* a tree was built from five blocks, not all alike
C14_Witness ==
    /\ last.op = "from" /\ last.kind = "Ok"
    /\ Len(last.blocks) = 5 /\ last.blocks[4] # last.blocks[5]
    /\ tree.height = 4 /\ Len(tree.hashes) = 11
    /\ MerkleTree_built(tree)

\* C15: in every state of a tree, for every leaf i and hash h, set(i, h)
\* called twice in a row leaves the node bitmap and the node hashes as
\* set(i, h) called once leaves them.
C15_SetIdempotent ==
    holder = "some" =>
        \A i \in 0..(tree.leaf_count - 1) : \A h \in LeafHashes :
            LET Again(once) ==
                    /\ once.kind = "Ok"
                    /\ MerkleTree_set(once.tree, i, HashArray(h)) = once
            IN  Again(MerkleTree_set(tree, i, HashArray(h)))

\* the last request set a leaf to the hash a set had already given it, in
\* a tree with nodes written above the leaves and others still missing, and
\* the tree is as it was
C15_Witness ==
    /\ last.op = "set" /\ last.kind = "Ok"
    /\ MerkleTree_has(last.before, last.leaf_index)
    /\ MerkleTree_get_hash(last.before, last.leaf_index) = last.hash
    /\ last.before = MerkleTree_set(last.before, last.leaf_index,
                                       HashArray(last.hash)).tree
    /\ tree = last.before
    /\ tree.leaf_count = 4
    /\ MerkleTree_has(tree, 4) /\ ~MerkleTree_built(tree)

\* a step of a tree keeps its nodes and every bit that is set
BitsKept ==
    holder = "some" =>
        /\ Len(tree'.bitmap) = Len(tree.bitmap)
        /\ \A i \in 0..(Len(tree.bitmap) - 1) :
               MerkleTree_has(tree, i) => MerkleTree_has(tree', i)

\* C16: no set, prove or verify request clears the bit of a node that is
\* set: the set of set nodes only grows.
C16_BitsOnlyGrow == [][BitsKept]_vars

\* a leaf under written ancestors was set again with another hash, and
\* every node that was set before still is
C16_Witness ==
    /\ last.op = "set" /\ last.kind = "Ok"
    /\ MerkleTree_has(last.before, last.leaf_index)
    /\ MerkleTree_get_hash(last.before, last.leaf_index) # last.hash
    /\ tree.leaf_count = 4 /\ MerkleTree_has(last.before, 4)
    /\ ~MerkleTree_built(tree)
    /\ \A i \in 0..(Len(tree.bitmap) - 1) :
           MerkleTree_has(last.before, i) => MerkleTree_has(tree, i)

\* the path of the node at position pos of a level of n nodes starting at
\* node `start`, `steps` levels up: the hash of the neighbour it is paired
\* with, None where it is the unpaired last node of its level or the root
RECURSIVE ExpectedPath(_, _, _, _, _)
ExpectedPath(t, pos, start, n, steps) ==
    IF steps = 0 THEN <<>>
    ELSE LET mate == IF pos % 2 = 1 THEN pos - 1 ELSE pos + 1
         IN  <<IF mate < n THEN Some(MerkleTree_get_hash(t, start + mate)) ELSE None>>
             \o ExpectedPath(t, pos \div 2, start + n, (n + 1) \div 2, steps - 1)

\* C17: on a fully built tree with at least one leaf, prove(i) returns a
\* proof for leaf i with the stored leaf hash, partial = false and a path of
\* exactly height entries, entry k being the hash of the sibling at level k,
\* or None where the node has no sibling.
C17_ProofShape ==
    (/\ last.op = "prove" /\ MerkleTree_built(tree) /\ tree.leaf_count >= 1
     /\ last.leaf_index < tree.leaf_count)
        => /\ last.kind = "Ok"
           /\ last.proof.leaf_index = last.leaf_index
           /\ last.proof.leaf_hash = MerkleTree_get_hash(tree, last.leaf_index)
           /\ last.proof.partial = FALSE
           /\ Len(last.proof.path) = tree.height
           /\ last.proof.path =
                  ExpectedPath(tree, last.leaf_index, 0, tree.leaf_count, tree.height)

\* the proof for the odd-tail leaf of a built five-leaf tree: no sibling at
\* the first two levels, one at the third, none at the root
C17_Witness ==
    /\ last.op = "prove" /\ last.kind = "Ok"
    /\ MerkleTree_built(tree) /\ tree.leaf_count = 5 /\ last.leaf_index = 4
    /\ Len(last.proof.path) = 4
    /\ last.proof.path[1] = None /\ last.proof.path[2] = None
    /\ last.proof.path[3] = Some(MerkleTree_get_hash(tree, 8))
    /\ last.proof.path[4] = None

\* the last request named a leaf index past the last leaf
PastLastLeaf ==
    \/ last.op \in {"set", "prove"} /\ last.leaf_index >= tree.leaf_count
    \/ last.op = "verify" /\ last.proof.leaf_index >= tree.leaf_count

\* C33: for a leaf index >= leaf_count (on a tree without leaves too) get,
\* set, prove and verify each return a typed error and leave the tree as it
\* was; none of them aborts.
C33_OutOfRangeTyped ==
    /\ holder = "some" =>
           MerkleTree_get(tree, tree.leaf_count).kind = "LeafIndexOutOfRange"
    /\ PastLastLeaf
           => /\ last.kind \notin {"Ok", "panic"}
              /\ holder = "some"
              /\ last.op = "set" => tree = last.before

\* C34: whenever prove(i) returns a proof, leaf i is set in the tree and the
\* proof carries the hash that was written for it; prove never returns a
\* proof for a leaf whose hash has not been written.
C34_ProvedLeafIsSet ==
    (last.op = "prove" /\ last.kind = "Ok")
        => /\ MerkleTree_has(tree, last.leaf_index)
           /\ last.proof.leaf_hash \in LeafHashes
           /\ last.proof.leaf_hash = MerkleTree_get_hash(tree, last.leaf_index)

\* verify accepted the last proof
Accepted == last.op = "verify" /\ last.kind = "Ok"

\* C35: a proof that verify accepts equals the proof the local tree
\* generates for that leaf: same leaf hash, same partial flag and the same
\* path, in length and in every entry, also when both proofs are partial.
C35_AcceptedIsLocal ==
    Accepted => /\ LocalProof(last.proof).kind = "Ok"
                /\ last.proof = LocalProof(last.proof).proof

\* C35 (amended): an accepted proof has the local leaf hash and the local
\* partial flag, and its path agrees with the locally generated path on the
\* entries both have; the two paths have the same length when the tree is
\* fully built, and on a tree not fully built the entries past the shorter
\* of the two paths are not compared.
C35_AcceptedAgreesOnPrefix ==
    Accepted =>
        \E local \in {LocalProof(last.proof)} :
            /\ local.kind = "Ok"
            /\ last.proof.leaf_hash = local.proof.leaf_hash
            /\ last.proof.partial = local.proof.partial
            /\ \A k \in 1..Min(Len(last.proof.path), Len(local.proof.path)) :
                   last.proof.path[k] = local.proof.path[k]
            /\ MerkleTree_built(tree) => last.proof.path = local.proof.path

\* a partial proof for a written leaf, accepted although its path is longer
\* than the one the local tree generates
C35_Witness ==
    /\ Accepted
    /\ ~MerkleTree_built(tree)
    /\ last.proof.partial
    /\ MerkleTree_has(tree, last.proof.leaf_index)
    /\ Len(last.proof.path) > Len(LocalProof(last.proof).proof.path)

\* C38: on a tree of L >= 1 leaves, built from blocks or created empty, after
\* any sequence of set calls an internal node is set if and only if all of
\* its existing children are set; so built() is true exactly when all L
\* leaves have been set.
C38_SetIffChildrenSet ==
    (holder = "some" /\ tree.leaf_count >= 1)
        => /\ \A f \in Families(tree) :
                  MerkleTree_has(tree, f.p)
                      <=> (/\ MerkleTree_has(tree, f.l)
                           /\ (f.r # -1 => MerkleTree_has(tree, f.r)))
           /\ MerkleTree_built(tree)
                  <=> \A i \in 0..(tree.leaf_count - 1) : MerkleTree_has(tree, i)

\* the set that completes a tree of five leaves created empty: the root was
\* unset before it and is set after it
C38_Witness ==
    /\ last.op = "set" /\ last.kind = "Ok"
    /\ tree.leaf_count = 5 /\ MerkleTree_built(tree)
    /\ ~MerkleTree_has(last.before, last.leaf_index)
    /\ ~MerkleTree_has(last.before, Len(tree.bitmap) - 1)
    /\ \E f \in Families(tree) : f.r = -1

\* the positions of a walk by IndexedLevel::down: `il` and what follows it,
\* `steps` positions at most; the walk ends where down returned none
RECURSIVE WalkDown(_, _)
WalkDown(il, steps) ==
    IF steps = 0 \/ ~il.some THEN <<>>
    ELSE <<il>> \o WalkDown(IndexedLevel_down(il), steps - 1)

\* C39: for a tree of L >= 1 leaves with (N, H) = tree_size(L): H >= 2, and
\* L = 1 gives N = 2 and H = 2; from every leaf i < L the walk by
\* IndexedLevel::down never returns none within H - 1 steps, every parent
\* index it visits is below N, and after exactly H - 1 steps it stands on
\* the root, node N - 1, in a level of one node.
C39_WalkReachesRoot ==
    (holder = "some" /\ tree.leaf_count >= 1)
        => /\ tree_size(tree.leaf_count)
                  = [size |-> Len(tree.bitmap), height |-> tree.height]
           /\ tree.height >= 2
           /\ tree.leaf_count = 1 => (Len(tree.bitmap) = 2 /\ tree.height = 2)
           /\ \A i \in 0..(tree.leaf_count - 1) :
                  \E w \in {WalkDown(IndexedLevel_down(
                                         IndexedLevel_new(i, 0, tree.leaf_count)),
                                     tree.height - 1)} :
                      /\ Len(w) = tree.height - 1
                      /\ \A k \in 1..Len(w) : w[k].index < Len(tree.bitmap)
                      /\ w[Len(w)].index = Len(tree.bitmap) - 1
                      /\ w[Len(w)].end - w[Len(w)].start = 1

\* a set on the odd-tail leaf of a tree of five leaves walked the three
\* levels up to the root, node 10
C39_Witness ==
    /\ last.op = "set" /\ last.kind = "Ok" /\ last.leaf_index = 4
    /\ tree.leaf_count = 5 /\ tree.height = 4 /\ Len(tree.bitmap) = 11
    /\ MerkleTree_has(tree, 10) /\ ~MerkleTree_has(last.before, 10)


\* C40: in every non-empty level [start, end) and for every index i in it,
\* sibling(i) is i - 1 if (i - start) is odd, else i + 1 if i + 1 < end,
\* else none; parent(i) = end + ((i - start) >> 1); the sibling relation is
\* symmetric, a node and its sibling have the same parent, and that parent
\* lies in the next level [end, end + ceil((end - start) / 2)) that down()
\* returns.
C40_SiblingParent ==
    (holder = "some" /\ tree.leaf_count >= 1) =>
        \A lv \in {LevelsFrom(0, tree.leaf_count, tree.height)[k] :
                       k \in 1..tree.height} :
            \A i \in lv.start..(lv.start + lv.n - 1) :
                \E il \in {IndexedLevel_new(i, lv.start, lv.start + lv.n)} :
                \E s \in {IndexedLevel_sibling(il)} :
                \E p \in {IndexedLevel_parent(il)} :
                \E down \in {IndexedLevel_down(il)} :
                    /\ il.some
                    /\ s = (IF (i - lv.start) % 2 = 1 THEN i - 1
                            ELSE IF i + 1 < il.end THEN i + 1 ELSE -1)
                    /\ p = il.end + ((i - lv.start) \div 2)
                    /\ s # -1 =>
                           /\ s >= il.start /\ s < il.end /\ s # i
                           /\ IndexedLevel_sibling([il EXCEPT !.index = s]) = i
                           /\ IndexedLevel_parent([il EXCEPT !.index = s]) = p
                    /\ down.some /\ down.index = p
                    /\ down.start = il.end
                    /\ down.end = il.end + ((lv.n + 1) \div 2)
                    /\ p >= down.start /\ p < down.end

\* a proof for leaf 3 of a tree of five leaves: its sibling is leaf 2 and
\* the next entry is the sibling of their parent, node 6
C40_Witness ==
    /\ last.op = "prove" /\ last.kind = "Ok" /\ last.leaf_index = 3
    /\ tree.leaf_count = 5 /\ MerkleTree_built(tree)
    /\ last.proof.path[1] = Some(MerkleTree_get_hash(tree, 2))
    /\ last.proof.path[2] = Some(MerkleTree_get_hash(tree, 5))
    /\ last.proof.path[3] = Some(MerkleTree_get_hash(tree, 9))

\* -------------------------------------------------------------- chunk map

\* ChunkMap::MIN_PIECE_SIZE, ChunkMap::MAX_PIECE_SIZE (1 << 10)
MIN_PIECE_SIZE == 16384
MAX_PIECE_SIZE == 1024

Max(a, b) == IF a > b THEN a ELSE b

\* div_upper: (value + by - 1) / by.  The sum passes 2^64 when value is one
\* of the last `by` values of usize: with overflow checks that panics,
\* without them it wraps and the quotient is 0.  (For value = 2^64 - by the
\* wrapped sum is 0 and the subtraction wraps back; no request of the model
\* has that value.)
div_upper(value, by) ==
    [panic |-> overflow_checks /\ value < 0 /\ value + by >= 0,
     val |-> (value + by - 1) \div by]

\* 1 << (bits - leading_zeros - 1): the largest power of two not above n
RECURSIVE HighBit(_)
HighBit(n) == IF n < 2 THEN 1 ELSE 2 * HighBit(n \div 2)

\* ChunkMap::piece_size; the high bit of a size of 2^63 or more (a negative
\* residue) is 2^63, above MAX_PIECE_SIZE
ChunkMap_piece_size(total_size) ==
    LET capped == IF total_size = 0 THEN 0
                  ELSE IF total_size < 0 THEN MAX_PIECE_SIZE
                  ELSE Min(HighBit(total_size), MAX_PIECE_SIZE)
    IN  Max(capped, MIN_PIECE_SIZE)

\* ChunkMap::chunk_size: piece_size >> 2
ChunkMap_chunk_size(piece_size) == piece_size \div 4

\* ChunkMap::new
ChunkMap_new(total_size, all_set) ==
    LET piece_size == ChunkMap_piece_size(total_size)
        chunk_size == ChunkMap_chunk_size(piece_size)
        piece_count == div_upper(total_size, piece_size)
        chunks_in_piece == div_upper(piece_size, chunk_size)
        chunk_count == piece_count.val * chunks_in_piece.val
    IN  [panic |-> piece_count.panic \/ chunks_in_piece.panic,
         map |-> [bitmap |-> [i \in 1..chunk_count |-> all_set],
                  chunk_size |-> chunk_size, chunk_count |-> chunk_count,
                  piece_size |-> piece_size, piece_count |-> piece_count.val,
                  chunks_in_piece |-> chunks_in_piece.val]]

\* ------------------------------------------------------------- ChunkSpec
\* ChunkMap::new on its own, as StorageMap::new calls it with the total size
\* of a storage: small sizes, sizes next to a multiple of the piece size,
\* and the last sizes a usize can hold (negative residues).

ChunkInit ==
    /\ overflow_checks \in BOOLEAN
    /\ disk = NoDisk
    /\ storage = NoStorage
    /\ chunks = NoChunks
    /\ tree = NoTree
    /\ holder = "none"
    /\ written = FALSE
    /\ router = NoRouter
    /\ blobs = NoBlobs
    /\ last = [op |-> "init"]

ChunkNew(total_size, all_set) ==
    /\ holder = "none"
    /\ \E c \in {ChunkMap_new(total_size, all_set)} :
           /\ chunks' = IF c.panic THEN NoChunks ELSE c.map
           /\ holder' = IF c.panic THEN "aborted" ELSE "none"
           /\ last' = [op |-> "chunk_map", total_size |-> total_size,
                       all_set |-> all_set,
                       kind |-> IF c.panic THEN "panic" ELSE "Ok"]
    /\ UNCHANGED <<router, blobs, overflow_checks, disk, storage, tree, written>>

ChunkNext ==
    \E total_size \in (0..8)
                      \cup {k * MIN_PIECE_SIZE + d : k \in 1..MaxPieces, d \in -2..2}
                      \cup {-1, -2, 1 - MIN_PIECE_SIZE} :
        \E all_set \in BOOLEAN : ChunkNew(total_size, all_set)

ChunkSpec == ChunkInit /\ [][ChunkNext]_vars

\* C32: for every total_size >= 0, ChunkMap::new gives piece_size = 16384
\* (the clamp of the largest power of two <= total_size between
\* MIN_PIECE_SIZE and MAX_PIECE_SIZE), chunk_size = piece_size / 4,
\* chunks_in_piece = 4, piece_count = ceil(total_size / piece_size), and
\* chunk_count = piece_count * chunks_in_piece = length of the chunk bitmap.
C32_ChunkGeometry ==
    last.op = "chunk_map"
        => /\ last.kind = "Ok"
           /\ chunks.piece_size = MIN_PIECE_SIZE
           /\ chunks.chunk_size * 4 = chunks.piece_size
           /\ chunks.chunks_in_piece = 4
           /\ ~ULess(chunks.piece_count * chunks.piece_size, last.total_size)
           /\ \/ chunks.piece_count = 0
              \/ ULess((chunks.piece_count - 1) * chunks.piece_size, last.total_size)
           /\ chunks.chunk_count = chunks.piece_count * chunks.chunks_in_piece
           /\ Len(chunks.bitmap) = chunks.chunk_count
           /\ \A i \in 1..Len(chunks.bitmap) : chunks.bitmap[i] = last.all_set

\* ------------------------------------------------------------ storage map

\* StorageMap::new
StorageMap_new(files, items) ==
    LET Failed(kind, s) ==
            [kind |-> kind, files |-> s.files,
             storage |-> NoStorage, chunks |-> NoChunks, tree |-> NoTree]
        Built(s, cm, t) ==
            [kind |-> IF t.panic THEN "panic" ELSE "Ok", files |-> s.files,
             storage |-> s.storage, chunks |-> cm, tree |-> t.tree]
        Leaves(s, cm, b) ==
            IF b.kind # "Ok" THEN Failed(b.kind, s)
            ELSE Built(s, cm, MerkleTree_from(b.blocks))
        Iter(s, cm, it) ==
            Leaves(s, cm, IterBlocks(s.files, s.storage, it, {it}, <<>>))
        Chunks(s, cm) == Iter(s, cm, StorageIterator_new(cm.piece_size))
        Map(s, c) ==
            IF c.panic THEN Failed("panic", s) ELSE Chunks(s, c.map)
        Storage(s) ==
            IF s.kind # "Ok" THEN Failed(s.kind, s)
            ELSE Map(s, ChunkMap_new(s.storage.total_size, TRUE))
    IN  Storage(GenericStorage_new(files, items))

\* StorageMap::has_chunk: false outside the bitmap
StorageMap_has_chunk(cm, chunk_num) ==
    chunk_num >= 0 /\ chunk_num < Len(cm.bitmap) /\ cm.bitmap[chunk_num + 1]

\* StorageMap::has_piece
StorageMap_has_piece(cm, piece_num) ==
    LET first_chunk == (piece_num * cm.piece_size) \div cm.chunk_size
    IN  \A i \in first_chunk..(first_chunk + cm.chunks_in_piece - 1) :
            StorageMap_has_chunk(cm, i)

\* StorageMap::piece_from_chunk
StorageMap_piece_from_chunk(cm, chunk_num) ==
    (chunk_num * cm.chunk_size) \div cm.piece_size

\* StorageMap::read_storage
StorageMap_read_storage(files, st, offset, size) ==
    GenericStorage_read(files, st, offset, Fill(size, 0))

\* StorageMap::read_chunk
StorageMap_read_chunk(files, st, cm, chunk) ==
    IF ~StorageMap_has_chunk(cm, chunk)
    THEN [kind |-> "ChunkDoesNotExist", n |-> 0, buf |-> <<>>]
    ELSE StorageMap_read_storage(files, st, chunk * cm.chunk_size, cm.chunk_size)

\* StorageMap::update_tree: the piece buffer itself goes to MerkleTree::set
StorageMap_update_tree(files, st, cm, t, piece_num) ==
    LET Set(buffer) ==
            IF buffer.kind # "Ok" THEN [kind |-> buffer.kind, tree |-> t]
            ELSE MerkleTree_set(t, piece_num,
                                [len |-> RLen(buffer.buf),
                                 bytes |-> Bytes(buffer.buf)])
    IN  Set(StorageMap_read_storage(files, st, piece_num * cm.piece_size,
                                    cm.piece_size))

\* StorageMap::write_chunk that skips the presence test
StorageMap_write_chunk_Overwrite(files, st, cm, t, chunk, data) ==
    LET w == GenericStorage_write(files, st, chunk * cm.chunk_size, data)
    IN  [kind |-> w.kind, files |-> w.files, chunks |-> cm, tree |-> t]

\* StorageMap::write_chunk: the files, chunk map and tree it leaves behind
StorageMap_write_chunk(files, st, cm, t, chunk, data) ==
    LET Updated(w, cm1, u) ==
            [kind |-> u.kind, files |-> w.files, chunks |-> cm1, tree |-> u.tree]
        Marked(w, cm1, piece_num) ==
            IF ~StorageMap_has_piece(cm1, piece_num)
            THEN [kind |-> "Ok", files |-> w.files, chunks |-> cm1, tree |-> t]
            ELSE Updated(w, cm1,
                         StorageMap_update_tree(w.files, st, cm1, t, piece_num))
        Written(w) ==
            IF w.kind # "Ok"
            THEN [kind |-> w.kind, files |-> w.files, chunks |-> cm, tree |-> t]
            ELSE IF chunk >= Len(cm.bitmap)       \* BitVec::set past the end
            THEN [kind |-> "panic", files |-> w.files, chunks |-> cm, tree |-> t]
            ELSE Marked(w, [cm EXCEPT !.bitmap[chunk + 1] = TRUE],
                        StorageMap_piece_from_chunk(cm, chunk))
    IN  IF StorageMap_has_chunk(cm, chunk)
        THEN [kind |-> "ChunkAlreadyExists", files |-> files, chunks |-> cm, tree |-> t]
        ELSE Written(GenericStorage_write(files, st, chunk * cm.chunk_size, data))

\* ------------------------------------------------------------------ Spec
\* The storage map behind its actor: Create or Load, then chunk reads and
\* writes, proofs and verifications.

ChunkSize == ChunkMap_chunk_size(MIN_PIECE_SIZE)

\* the resource lists a map is created over: n files of one chunk each at
\* locations 1..n, or one file of k pieces at location 0
ChunkFiles(n) == [l \in 1..n |-> [loc |-> l, size |-> ChunkSize]]
OneFile(k) == <<[loc |-> 0, size |-> k * MIN_PIECE_SIZE]>>
MapItemLists ==
    {ChunkFiles(n) : n \in 0..MaxFiles} \cup {OneFile(k) : k \in 1..MaxPieces}

\* the files of a resource list as found on the disk, every chunk of the
\* address space filled with a byte of its own
RECURSIVE ChunkRuns(_, _)
ChunkRuns(first, count) ==
    IF count = 0 THEN <<>>
    ELSE <<Run(ChunkSize, first)>> \o ChunkRuns(first + 1, count - 1)

FileBytes(item) ==
    IF item.loc = 0 THEN ChunkRuns(1, item.size \div ChunkSize)
    ELSE Fill(item.size, 100 + item.loc)

DiskOf(items) ==
    [l \in {items[k].loc : k \in 1..Len(items)} |->
        FileBytes(CHOOSE it \in {items[k] : k \in 1..Len(items)} : it.loc = l)]

\* the chunk a peer sends; a peer may also send nothing, or a byte more than
\* a chunk
ChunkData == Fill(ChunkSize, 200)

\* BitVec::to_bytes, the getter BitVecSerde serializes through: eight bits
\* to a byte, the first bit the high-order one, the bits missing from the
\* last byte taken as false
BitVec_to_bytes(bits) ==
    LET Bit(i, weight) == IF i <= Len(bits) /\ bits[i] THEN weight ELSE 0
    IN  [k \in 1..((Len(bits) + 7) \div 8) |->
            Bit(8 * k - 7, 128) + Bit(8 * k - 6, 64) + Bit(8 * k - 5, 32)
            + Bit(8 * k - 4, 16) + Bit(8 * k - 3, 8) + Bit(8 * k - 2, 4)
            + Bit(8 * k - 1, 2) + Bit(8 * k, 1)]

\* BitVec::from_bytes that takes the low-order bit of a byte first
BitVec_from_bytes_LowFirst(bytes) ==
    [i \in 1..(8 * Len(bytes)) |->
        (bytes[((i - 1) \div 8) + 1] \div (2 ^ ((i - 1) % 8))) % 2 = 1]

\* BitVec::from_bytes, which From<BitVecSerde> restores the bits with:
\* every byte becomes eight bits, the high-order one first
BitVec_from_bytes(bytes) ==
    [i \in 1..(8 * Len(bytes)) |->
        (bytes[((i - 1) \div 8) + 1] \div (2 ^ (7 - ((i - 1) % 8)))) % 2 = 1]

\* a persisted map as Save writes it: the resource locations, the total
\* size, the chunk map and the tree, their bitmaps packed into bytes
Persisted(st, cm, t) ==
    [locations |-> [k \in 1..Len(st.resources) |-> st.resources[k].loc],
     total_size |-> st.total_size,
     chunks |-> [cm EXCEPT !.bitmap = BitVec_to_bytes(@)],
     tree |-> [t EXCEPT !.bitmap = BitVec_to_bytes(@)]]

\* the blob a peer hands over for a download not yet complete: the first
\* `present` chunks of every piece are there, and the tree of piece_count
\* leaves has no node written
Sparse(items, present) ==
    LET Map(total, cm) ==
            Persisted([resources |-> items, total_size |-> total],
                      [cm EXCEPT !.bitmap =
                          [i \in 1..cm.chunk_count |->
                              (i - 1) % cm.chunks_in_piece < present]],
                      MerkleTree_new(cm.piece_count))
        Of(total) == Map(total, ChunkMap_new(total, FALSE).map)
    IN  Of(SumSizes(items))

\* a resource list whose files, where the disk has them, have its sizes
Fits(files, items) ==
    \A k \in 1..Len(items) :
        items[k].loc \in DOMAIN files => RLen(files[items[k].loc]) = items[k].size

\* the blobs offered to Load: sparse ones, and the one Save writes right
\* after a Create over the same files
Blobs(files) ==
    {Sparse(items, present) :
        items \in {i \in MapItemLists : Fits(files, i)}, present \in {2, 3}}
    \cup {Persisted(m.storage, m.chunks, m.tree) :
            m \in {n \in {StorageMap_new(files, items) : items \in MapItemLists} :
                      n.kind = "Ok"}}

\* deserialization of the storage: Resource::open of every location
LoadStorage(files, blob) ==
    [resources |-> [k \in 1..Len(blob.locations) |->
                       [loc |-> blob.locations[k],
                        size |-> RLen(files[blob.locations[k]])]],
     total_size |-> blob.total_size]

Init ==
    /\ overflow_checks \in BOOLEAN
    /\ disk \in {NoDisk, DiskOf(ChunkFiles(MaxFiles)), DiskOf(OneFile(MaxPieces))}
    /\ storage = NoStorage
    /\ chunks = NoChunks
    /\ tree = NoTree
    /\ holder = "none"
    /\ written = FALSE
    /\ router = NoRouter
    /\ blobs = NoBlobs
    /\ last = [op |-> "init"]

\* Handler<Create>
Create(items) ==
    /\ holder = "none"
    /\ \E m \in {StorageMap_new(disk, items)} :
           /\ disk' = m.files
           /\ storage' = m.storage
           /\ chunks' = m.chunks
           /\ tree' = m.tree
           /\ holder' = CASE m.kind = "Ok" -> "some"
                          [] m.kind = "panic" -> "aborted"
                          [] m.kind = "diverged" -> "diverged"
                          [] OTHER -> "none"
           /\ last' = [op |-> "create", items |-> items, kind |-> m.kind]
    /\ UNCHANGED <<router, blobs, overflow_checks, written>>

\* Handler<Load>
Load(blob) ==
    /\ holder = "none"
    /\ \E found \in {\A k \in 1..Len(blob.locations) : blob.locations[k] \in DOMAIN disk} :
           /\ storage' = IF found THEN LoadStorage(disk, blob) ELSE NoStorage
           /\ chunks' = IF found THEN [blob.chunks EXCEPT !.bitmap = BitVec_from_bytes(@)]
                        ELSE NoChunks
           /\ tree' = IF found THEN [blob.tree EXCEPT !.bitmap = BitVec_from_bytes(@)]
                      ELSE NoTree
           /\ holder' = IF found THEN "some" ELSE "none"
           /\ last' = [op |-> "load", kind |-> IF found THEN "Ok" ELSE "IoError"]
    /\ UNCHANGED <<router, blobs, overflow_checks, disk, written>>

\* Handler<ReadChunk>
ReadChunk(chunk) ==
    /\ holder = "some"
    /\ \E r \in {StorageMap_read_chunk(disk, storage, chunks, chunk)} :
           /\ holder' = IF r.kind = "panic" THEN "aborted" ELSE "some"
           /\ last' = [op |-> "read_chunk", chunk |-> chunk, kind |-> r.kind,
                       buf |-> r.buf]
    /\ UNCHANGED <<router, blobs, overflow_checks, disk, storage, chunks, tree, written>>

\* how far the requests since Create follow the script "write every chunk
\* once, last chunk first": k when they are exactly the writes of the last
\* k chunks in descending order, this one included; -1 otherwise
ReverseRun(chunk) ==
    LET sofar == IF last.op = "create" THEN 0
                 ELSE IF last.op = "write_chunk" THEN last.run
                 ELSE -1
    IN  IF sofar >= 0 /\ chunk = chunks.chunk_count - 1 - sofar THEN sofar + 1 ELSE -1

\* Handler<WriteChunk>
WriteChunk(chunk, data) ==
    /\ holder = "some"
    /\ \E r \in {StorageMap_write_chunk(disk, storage, chunks, tree, chunk, data)} :
           /\ disk' = r.files
           /\ chunks' = r.chunks
           /\ tree' = r.tree
           /\ holder' = IF r.kind = "panic" THEN "aborted" ELSE "some"
           /\ last' = [op |-> "write_chunk", chunk |-> chunk, data |-> data,
                       kind |-> r.kind, run |-> ReverseRun(chunk),
                       before |-> [disk |-> disk, chunks |-> chunks, tree |-> tree]]
    /\ UNCHANGED <<router, blobs, overflow_checks, storage, written>>

\* Handler<Prove>
Prove(leaf_index) ==
    /\ holder = "some"
    /\ \E r \in {MerkleTree_prove(tree, leaf_index)} :
           /\ holder' = IF r.kind = "panic" THEN "aborted" ELSE "some"
           /\ last' = [op |-> "prove", leaf_index |-> leaf_index, kind |-> r.kind,
                       proof |-> r.proof]
    /\ UNCHANGED <<router, blobs, overflow_checks, disk, storage, chunks, tree, written>>

\* Handler<Verify>
Verify(proof) ==
    /\ holder = "some"
    /\ last' = [op |-> "verify", proof |-> proof,
                kind |-> MerkleTree_verify(tree, proof)]
    /\ UNCHANGED <<router, blobs, overflow_checks, disk, storage, chunks, tree, holder, written>>

\* the proofs sent to a map: its own, and one for a leaf past the last
MapProofs(t) ==
    {MerkleTree_prove(t, i).proof :
        i \in {j \in 0..(t.leaf_count - 1) : MerkleTree_prove(t, j).kind = "Ok"}}
    \cup {[leaf_index |-> t.leaf_count, leaf_hash |-> ZeroHash,
           path |-> <<None, None>>, partial |-> FALSE]}

Next ==
    \/ \E items \in MapItemLists : Create(items)
    \/ \E blob \in Blobs(disk) : Load(blob)
    \/ \E chunk \in 0..chunks.chunk_count : ReadChunk(chunk)
    \/ \E chunk \in 0..chunks.chunk_count :
           \E data \in {ChunkData, <<>>, Fill(ChunkSize + 1, 201)} :
               WriteChunk(chunk, data)
    \/ \E leaf_index \in 0..chunks.piece_count : Prove(leaf_index)
    \/ \E proof \in MapProofs(tree) : Verify(proof)

Spec == Init /\ [][Next]_vars

\* the piece_size bytes of piece p as the storage holds them
PieceBytes(p) ==
    RSlice(Logical(disk, storage.resources), p * chunks.piece_size, chunks.piece_size)

\* D(piece p)
PieceDigest(p) == Digest(<<Bytes(PieceBytes(p))>>)

\* C2: read_chunk of a chunk whose bit is set succeeds and returns the
\* chunk_size bytes at logical addresses [c * chunk_size, (c + 1) * chunk_size).
C2_ReadChunk ==
    (last.op = "read_chunk" /\ StorageMap_has_chunk(chunks, last.chunk))
        => /\ last.kind = "Ok"
           /\ RLen(last.buf) = chunks.chunk_size
           /\ last.buf = RSlice(Logical(disk, storage.resources),
                                last.chunk * chunks.chunk_size, chunks.chunk_size)

\* the last request was a write_chunk to an absent chunk that was the only
\* one missing from its piece
CompletedPiece ==
    /\ last.op = "write_chunk"
    /\ last.chunk < last.before.chunks.chunk_count
    /\ ~StorageMap_has_chunk(last.before.chunks, last.chunk)
    /\ StorageMap_has_piece(
           [last.before.chunks EXCEPT !.bitmap[last.chunk + 1] = TRUE],
           StorageMap_piece_from_chunk(last.before.chunks, last.chunk))

\* the write carried a whole chunk, its bytes reached the storage and the
\* chunk bit was set
ChunkStored ==
    /\ RLen(last.data) = chunks.chunk_size
    /\ StorageMap_has_chunk(chunks, last.chunk)
    /\ RSlice(Logical(disk, storage.resources),
              last.chunk * chunks.chunk_size, chunks.chunk_size) = last.data

\* C3: a write_chunk that completes piece p succeeds, and afterwards leaf p
\* of the tree is set and holds the digest of the piece_size bytes of p
\* (stated for the calls that write a whole chunk the storage accepted).
C3_PieceDigest ==
    (CompletedPiece /\ ChunkStored) =>
        LET p == StorageMap_piece_from_chunk(chunks, last.chunk)
        IN  /\ last.kind = "Ok"
            /\ MerkleTree_has(tree, p)
            /\ MerkleTree_get_hash(tree, p) = PieceDigest(p)

\* C4: after a successful StorageMap::new every chunk bit is set, the tree
\* is fully built and leaf p is the digest of piece p for every piece.
C4_FreshMapBuilt ==
    (last.op = "create" /\ last.kind = "Ok")
        => /\ \A c \in 0..(chunks.chunk_count - 1) : StorageMap_has_chunk(chunks, c)
           /\ MerkleTree_built(tree)
           /\ \A p \in 0..(chunks.piece_count - 1) :
                  /\ p < tree.leaf_count
                  /\ MerkleTree_get_hash(tree, p) = PieceDigest(p)

\* C5: whenever the actor holds a storage map, the leaf_count of its tree
\* equals the piece_count of its chunk map.
C5_LeafCount ==
    holder = "some" => tree.leaf_count = chunks.piece_count

\* the resource of scenario S5
S5Items == <<[loc |-> 0, size |-> 65536]>>

\* C6: on a map freshly created over one 65536-byte resource, every
\* write_chunk of the script "all chunks once, in reverse order" succeeds,
\* and after the last of them the tree is fully built and prove(0) succeeds.
C6_ReverseOrderWrites ==
    (/\ last.op = "write_chunk" /\ last.run > 0 /\ last.data = ChunkData
     /\ storage.resources = S5Items)
        => /\ last.kind = "Ok"
           /\ last.run = chunks.chunk_count
                  => /\ MerkleTree_built(tree)
                     /\ MerkleTree_prove(tree, 0).kind = "Ok"

\* a write_chunk on a chunk whose bit was set was refused and changed neither
\* the files, nor the chunk bits, nor the tree
C7_Refused ==
    (last.op = "write_chunk" /\ StorageMap_has_chunk(last.before.chunks, last.chunk))
        => /\ last.kind = "ChunkAlreadyExists"
           /\ disk = last.before.disk
           /\ chunks = last.before.chunks
           /\ tree = last.before.tree

\* a step keeps every set chunk bit and every complete piece
C7_Monotone ==
    holder = "some" =>
        /\ \A c \in 0..(chunks.chunk_count - 1) :
               StorageMap_has_chunk(chunks, c) => StorageMap_has_chunk(chunks', c)
        /\ \A p \in 0..(chunks.piece_count - 1) :
               StorageMap_has_piece(chunks, p) => StorageMap_has_piece(chunks', p)

\* C7: write_chunk on a chunk whose bit is set returns ChunkAlreadyExists
\* and leaves the files, the chunk bits and the tree as they were; and no
\* request ever clears a chunk bit or makes a complete piece incomplete.
C7_NoRewrite == [](C7_Refused) /\ [][C7_Monotone]_vars

\* a full-sized write_chunk to a present chunk was refused on a map that
\* still has absent chunks
C7_Witness ==
    /\ last.op = "write_chunk" /\ last.data = ChunkData
    /\ StorageMap_has_chunk(last.before.chunks, last.chunk)
    /\ last.kind = "ChunkAlreadyExists"
    /\ \E c \in 0..(chunks.chunk_count - 1) : ~StorageMap_has_chunk(chunks, c)
    /\ holder = "some"

\* the nodes write_chunk(c, data) may write in the tree: the leaf of the
\* piece of chunk c and the nodes above it
TouchedNodes(cm, t, chunk) ==
    UNION {{w[k].index : k \in 1..Len(w)} :
               w \in {WalkDown(IndexedLevel_new(
                                   StorageMap_piece_from_chunk(cm, chunk),
                                   0, t.leaf_count), t.height)}}

\* C36: a successful write_chunk(c, data) changes only the storage bytes in
\* [c * chunk_size, (c + 1) * chunk_size), only chunk bit c, and only the
\* tree leaf piece_from_chunk(c) with its ancestors; whatever the length of
\* data, no byte of another chunk is altered.
C36_WriteFrame ==
    (last.op = "write_chunk" /\ last.kind = "Ok")
        => /\ \E old \in {Logical(last.before.disk, storage.resources)} :
              \E new \in {Logical(disk, storage.resources)} :
                  /\ RLen(new) = RLen(old)
                  /\ RNorm(RTake(new, last.chunk * chunks.chunk_size))
                         = RNorm(RTake(old, last.chunk * chunks.chunk_size))
                  /\ RNorm(RDrop(new, (last.chunk + 1) * chunks.chunk_size))
                         = RNorm(RDrop(old, (last.chunk + 1) * chunks.chunk_size))
           /\ \A c \in 0..(chunks.chunk_count - 1) :
                  c # last.chunk =>
                      (StorageMap_has_chunk(chunks, c)
                           <=> StorageMap_has_chunk(last.before.chunks, c))
           /\ \A i \in 0..(Len(tree.hashes) - 1) :
                  i \notin TouchedNodes(chunks, tree, last.chunk) =>
                      /\ MerkleTree_has(tree, i) <=> MerkleTree_has(last.before.tree, i)
                      /\ MerkleTree_get_hash(tree, i)
                             = MerkleTree_get_hash(last.before.tree, i)

\* a request for a chunk past the last one
ChunkPastLast ==
    /\ last.op \in {"read_chunk", "write_chunk"}
    /\ last.chunk >= chunks.chunk_count

\* C37: read_chunk(c) and write_chunk(c, data) with c >= chunk_count return
\* a typed error for every data, empty data included, and leave the chunk
\* bitmap, the tree and the storage as they were; neither aborts.
C37_PastLastRefused ==
    ChunkPastLast
        => /\ last.kind \notin {"Ok", "panic", "diverged"}
           /\ holder = "some"
           /\ last.op = "write_chunk" =>
                  /\ disk = last.before.disk
                  /\ chunks = last.before.chunks
                  /\ tree = last.before.tree

\* ------------------------------------------------------------ RouterSpec
\* The service: StorageRouter in front of one StorageMapActor per id.

MaxIds == 2          \* storage ids a caller names
MaxPaths == 1        \* paths Save writes to and Load reads from

Ids == 1..MaxIds
Paths == 1..MaxPaths

\* deserialize_from of a VersionedStorageMap: the file at `path` is read,
\* the bitmaps are restored from their bytes and every resource location
\* is opened
deserialize_from(files, bl, path) ==
    LET Restored(blob) ==
            IF \E k \in 1..Len(blob.locations) : blob.locations[k] \notin DOMAIN files
            THEN [kind |-> "BincodeError", actor |-> NewActor]
            ELSE [kind |-> "Ok",
                  actor |-> [holder |-> "some",
                             storage |-> LoadStorage(files, blob),
                             chunks |-> [blob.chunks EXCEPT
                                            !.bitmap = BitVec_from_bytes(@)],
                             tree |-> [blob.tree EXCEPT
                                          !.bitmap = BitVec_from_bytes(@)]]]
    IN  IF path \notin DOMAIN bl THEN [kind |-> "BincodeError", actor |-> NewActor]
        ELSE Restored(bl[path].blob)

\* what a handler hands back when it changes nothing
Reply(files, a, kind, value) ==
    [kind |-> kind, actor |-> a, files |-> files, value |-> value]

\* Handler<Create> for StorageMapActor
Handler_Create(files, a, items) ==
    LET Made(m) ==
            [kind |-> m.kind, files |-> m.files, value |-> <<>>,
             actor |-> IF m.kind = "Ok"
                       THEN [holder |-> "some", storage |-> m.storage,
                             chunks |-> m.chunks, tree |-> m.tree]
                       ELSE a]
    IN  IF a.holder = "some" THEN Reply(files, a, "StorageAlreadyExists", <<>>)
        ELSE Made(StorageMap_new(files, items))

\* Handler<Load> for StorageMapActor
Handler_Load(files, bl, a, path) ==
    LET Loaded(d) ==
            [kind |-> d.kind, files |-> files, value |-> <<>>,
             actor |-> IF d.kind = "Ok" THEN d.actor ELSE a]
    IN  IF a.holder = "some" THEN Reply(files, a, "StorageAlreadyExists", <<>>)
        ELSE Loaded(deserialize_from(files, bl, path))

\* Handler<Save> for StorageMapActor: the value is the blob serialize_into
\* writes
Handler_Save(files, a) ==
    IF a.holder # "some" THEN Reply(files, a, "StorageDoesNotExist", <<>>)
    ELSE Reply(files, a, "Ok", Persisted(a.storage, a.chunks, a.tree))

\* Handler<ReadChunk> for StorageMapActor
Handler_ReadChunk(files, a, chunk) ==
    LET Read(r) == Reply(files, a, r.kind, r.buf)
    IN  IF a.holder # "some" THEN Reply(files, a, "StorageDoesNotExist", <<>>)
        ELSE Read(StorageMap_read_chunk(files, a.storage, a.chunks, chunk))

\* Handler<WriteChunk> for StorageMapActor
Handler_WriteChunk(files, a, chunk, data) ==
    LET Wrote(r) ==
            [kind |-> r.kind, files |-> r.files, value |-> <<>>,
             actor |-> [a EXCEPT !.chunks = r.chunks, !.tree = r.tree]]
    IN  IF a.holder # "some" THEN Reply(files, a, "StorageDoesNotExist", <<>>)
        ELSE Wrote(StorageMap_write_chunk(files, a.storage, a.chunks, a.tree,
                                          chunk, data))

\* Handler<HasChunk> for StorageMapActor
Handler_HasChunk(files, a, chunk) ==
    IF a.holder # "some" THEN Reply(files, a, "StorageDoesNotExist", <<>>)
    ELSE Reply(files, a, "Ok", StorageMap_has_chunk(a.chunks, chunk))

\* Handler<HasPiece> for StorageMapActor
Handler_HasPiece(files, a, piece) ==
    IF a.holder # "some" THEN Reply(files, a, "StorageDoesNotExist", <<>>)
    ELSE Reply(files, a, "Ok", StorageMap_has_piece(a.chunks, piece))

\* Handler<Prove> for StorageMapActor
Handler_Prove(files, a, leaf_index) ==
    LET Proved(r) == Reply(files, a, r.kind, r.proof)
    IN  IF a.holder # "some" THEN Reply(files, a, "StorageDoesNotExist", <<>>)
        ELSE Proved(MerkleTree_prove(a.tree, leaf_index))

\* Handler<VerifyProof> for StorageMapActor
Handler_VerifyProof(files, a, proof) ==
    IF a.holder # "some" THEN Reply(files, a, "StorageDoesNotExist", <<>>)
    ELSE Reply(files, a, MerkleTree_verify(a.tree, proof), <<>>)

\* address.send(msg): `r` is what the handler of the worker `a` makes of the
\* message.  A worker whose handler panicked has closed its mailbox, and
\* one whose handler never returns answers nothing any more.
send(files, a, r) ==
    IF a.holder = "aborted" THEN Reply(files, a, "MailboxError", <<>>)
    ELSE IF a.holder = "diverged" THEN Reply(files, a, "NoReply", <<>>)
    ELSE IF r.kind = "panic"
    THEN [r EXCEPT !.kind = "MailboxError", !.actor.holder = "aborted"]
    ELSE IF r.kind = "diverged"
    THEN [r EXCEPT !.kind = "NoReply", !.actor.holder = "diverged"]
    ELSE r

\* wrap_future!: `result.unwrap()` on the Result the worker replied with,
\* so an Err of the worker panics in the router; a mailbox error is the
\* error of the future and passes
wrap_future(kind) ==
    IF kind \in {"Ok", "MailboxError", "NoReply"}
    THEN [reply |-> kind, running |-> TRUE]
    ELSE [reply |-> "panic", running |-> FALSE]

\* StorageRouter::spawn
StorageRouter_spawn(r, id) ==
    [r EXCEPT !.actors = [i \in DOMAIN r.actors \cup {id} |->
                             IF i = id THEN NewActor ELSE r.actors[i]]]

\* impl_forward_new! that starts a worker whatever the id
impl_forward_new_NoLookup(r, id) ==
    [reply |-> "forward", router |-> StorageRouter_spawn(r, id)]

\* impl_forward_new!, up to the send: the id is looked up, and a worker is
\* started and registered when there is none
impl_forward_new(r, id) ==
    IF id \in DOMAIN r.actors
    THEN [reply |-> "StorageAlreadyExists", router |-> r]
    ELSE [reply |-> "forward", router |-> StorageRouter_spawn(r, id)]

\* impl_forward! that starts a worker for an id it does not know
impl_forward_Spawn(r, id) ==
    IF id \in DOMAIN r.actors THEN [reply |-> "forward", router |-> r]
    ELSE [reply |-> "forward", router |-> StorageRouter_spawn(r, id)]

\* impl_forward!, up to the send
impl_forward(r, id) ==
    IF id \in DOMAIN r.actors THEN [reply |-> "forward", router |-> r]
    ELSE [reply |-> "StorageDoesNotExist", router |-> r]

\* the request as `last` keeps it
Request(op, id, arg) == [op |-> op, id |-> id, arg |-> arg]

\* the router answers by itself: err!(kind)
Refuse(req, kind) ==
    /\ last' = [request |-> req, op |-> req.op, routed |-> FALSE,
                worker |-> "none", reply |-> kind, value |-> <<>>]
    /\ UNCHANGED <<router, disk>>

\* the router forwards: `f` is its state after the lookup, `r` the outcome
\* of the send, which wrap_future! turns into the reply
Forward(req, f, r) ==
    \E w \in {wrap_future(r.kind)} :
        /\ router' = [running |-> w.running,
                      actors |-> [f.router.actors EXCEPT ![req.id] = r.actor]]
        /\ disk' = r.files
        /\ last' = [request |-> req, op |-> req.op, routed |-> TRUE,
                    worker |-> r.kind, reply |-> w.reply, value |-> r.value]

\* the worker of `id` in the router state `r`
Worker(r, id) == r.actors[id]

\* Handler<Create> for StorageRouter
RouterCreate(id, items) ==
    /\ router.running
    /\ \E f \in {impl_forward_new(router, id)} :
           IF f.reply # "forward" THEN Refuse(Request("create", id, items), f.reply)
           ELSE Forward(Request("create", id, items), f,
                        send(disk, Worker(f.router, id),
                             Handler_Create(disk, Worker(f.router, id), items)))
    /\ UNCHANGED <<overflow_checks, storage, chunks, tree, holder, written, blobs>>

\* Handler<Load> for StorageRouter
RouterLoad(id, path) ==
    /\ router.running
    /\ \E f \in {impl_forward_new(router, id)} :
           IF f.reply # "forward" THEN Refuse(Request("load", id, path), f.reply)
           ELSE Forward(Request("load", id, path), f,
                        send(disk, Worker(f.router, id),
                             Handler_Load(disk, blobs, Worker(f.router, id), path)))
    /\ UNCHANGED <<overflow_checks, storage, chunks, tree, holder, written, blobs>>

\* Handler<Save> for StorageRouter; `saved` remembers the map the blob was
\* written from and is read by no request
RouterSave(id, path) ==
    /\ router.running
    /\ \E f \in {impl_forward(router, id)} :
           IF f.reply # "forward"
           THEN Refuse(Request("save", id, path), f.reply) /\ UNCHANGED blobs
           ELSE \E r \in {send(disk, Worker(f.router, id),
                               Handler_Save(disk, Worker(f.router, id)))} :
                    /\ Forward(Request("save", id, path), f, r)
                    /\ blobs' = IF r.kind # "Ok" THEN blobs
                                ELSE [p \in DOMAIN blobs \cup {path} |->
                                         IF p = path
                                         THEN [blob |-> r.value, saved |-> r.actor]
                                         ELSE blobs[p]]
    /\ UNCHANGED <<overflow_checks, storage, chunks, tree, holder, written>>

\* Handler<ReadChunk> for StorageRouter
RouterReadChunk(id, chunk) ==
    /\ router.running
    /\ \E f \in {impl_forward(router, id)} :
           IF f.reply # "forward" THEN Refuse(Request("read_chunk", id, chunk), f.reply)
           ELSE Forward(Request("read_chunk", id, chunk), f,
                        send(disk, Worker(f.router, id),
                             Handler_ReadChunk(disk, Worker(f.router, id), chunk)))
    /\ UNCHANGED <<overflow_checks, storage, chunks, tree, holder, written, blobs>>

\* Handler<WriteChunk> for StorageRouter
RouterWriteChunk(id, chunk, data) ==
    /\ router.running
    /\ \E f \in {impl_forward(router, id)} :
           IF f.reply # "forward" THEN Refuse(Request("write_chunk", id, chunk), f.reply)
           ELSE Forward(Request("write_chunk", id, chunk), f,
                        send(disk, Worker(f.router, id),
                             Handler_WriteChunk(disk, Worker(f.router, id),
                                                chunk, data)))
    /\ UNCHANGED <<overflow_checks, storage, chunks, tree, holder, written, blobs>>

\* Handler<HasChunk> for StorageRouter
RouterHasChunk(id, chunk) ==
    /\ router.running
    /\ \E f \in {impl_forward(router, id)} :
           IF f.reply # "forward" THEN Refuse(Request("has_chunk", id, chunk), f.reply)
           ELSE Forward(Request("has_chunk", id, chunk), f,
                        send(disk, Worker(f.router, id),
                             Handler_HasChunk(disk, Worker(f.router, id), chunk)))
    /\ UNCHANGED <<overflow_checks, storage, chunks, tree, holder, written, blobs>>

\* Handler<HasPiece> for StorageRouter
RouterHasPiece(id, piece) ==
    /\ router.running
    /\ \E f \in {impl_forward(router, id)} :
           IF f.reply # "forward" THEN Refuse(Request("has_piece", id, piece), f.reply)
           ELSE Forward(Request("has_piece", id, piece), f,
                        send(disk, Worker(f.router, id),
                             Handler_HasPiece(disk, Worker(f.router, id), piece)))
    /\ UNCHANGED <<overflow_checks, storage, chunks, tree, holder, written, blobs>>

\* Handler<Prove> for StorageRouter
RouterProve(id, leaf_index) ==
    /\ router.running
    /\ \E f \in {impl_forward(router, id)} :
           IF f.reply # "forward" THEN Refuse(Request("prove", id, leaf_index), f.reply)
           ELSE Forward(Request("prove", id, leaf_index), f,
                        send(disk, Worker(f.router, id),
                             Handler_Prove(disk, Worker(f.router, id), leaf_index)))
    /\ UNCHANGED <<overflow_checks, storage, chunks, tree, holder, written, blobs>>

\* Handler<VerifyProof> for StorageRouter
RouterVerifyProof(id, proof) ==
    /\ router.running
    /\ \E f \in {impl_forward(router, id)} :
           IF f.reply # "forward" THEN Refuse(Request("verify_proof", id, proof), f.reply)
           ELSE Forward(Request("verify_proof", id, proof), f,
                        send(disk, Worker(f.router, id),
                             Handler_VerifyProof(disk, Worker(f.router, id), proof)))
    /\ UNCHANGED <<overflow_checks, storage, chunks, tree, holder, written, blobs>>

\* the resource lists of the callers: the file at location 0 as one piece,
\* and as one chunk, so that they do not agree on its size
RouterItemLists == {OneFile(1), <<[loc |-> 0, size |-> ChunkSize]>>}

\* the blob of a peer found at path 1: the file of one piece, none of its
\* four chunks there yet
PeerBlobs ==
    [path \in {1} |-> [blob |-> Sparse(OneFile(1), 0), saved |-> NewActor]]

\* the chunks, pieces and proofs asked of the worker of `id`: the first
\* chunk, the last and the one past it; of a worker that is not there,
\* chunk 0, piece 0 and the proofs of the empty tree
ChunksOf(id) ==
    IF id \in DOMAIN router.actors /\ router.actors[id].holder = "some"
    THEN {0, router.actors[id].chunks.chunk_count - 1,
          router.actors[id].chunks.chunk_count}
    ELSE {0}
PiecesOf(id) ==
    IF id \in DOMAIN router.actors
    THEN 0..router.actors[id].chunks.piece_count ELSE {0}
ProofsOf(id) ==
    IF id \in DOMAIN router.actors /\ router.actors[id].holder = "some"
    THEN MapProofs(router.actors[id].tree) ELSE MapProofs(NoTree)

\* the ids requests name: ids are names only, so a request names a
\* registered id or the first id not registered yet
RequestIds == {id \in Ids : \A j \in 1..(id - 1) : j \in DOMAIN router.actors}

RouterInit ==
    /\ overflow_checks \in BOOLEAN
    /\ disk = NoDisk
    /\ storage = NoStorage
    /\ chunks = NoChunks
    /\ tree = NoTree
    /\ holder = "none"
    /\ written = FALSE
    /\ router = NoRouter
    /\ blobs \in {NoBlobs, PeerBlobs}
    /\ last = [op |-> "init"]

RouterNext ==
    \/ \E id \in RequestIds : \E items \in RouterItemLists : RouterCreate(id, items)
    \/ \E id \in RequestIds : \E path \in Paths : RouterLoad(id, path)
    \/ \E id \in RequestIds : \E path \in Paths : RouterSave(id, path)
    \/ \E id \in RequestIds : \E chunk \in ChunksOf(id) : RouterReadChunk(id, chunk)
    \/ \E id \in RequestIds : \E chunk \in ChunksOf(id) : RouterWriteChunk(id, chunk, ChunkData)
    \/ \E id \in RequestIds : \E chunk \in ChunksOf(id) : RouterHasChunk(id, chunk)
    \/ \E id \in RequestIds : \E piece \in PiecesOf(id) : RouterHasPiece(id, piece)
    \/ \E id \in RequestIds : \E leaf_index \in PiecesOf(id) : RouterProve(id, leaf_index)
    \/ \E id \in RequestIds : \E proof \in ProofsOf(id) : RouterVerifyProof(id, proof)

RouterSpec == RouterInit /\ [][RouterNext]_vars

\* the blob a load has read, and the worker it went to
LoadedBlob == blobs[last.request.arg]
LoadedActor == router.actors[last.request.id]

\* two storage maps answer alike: has_chunk for every chunk, has and the
\* hash for every node, and built
SameAnswers(a, m) ==
    /\ \A c \in 0..Max(Len(a.chunks.bitmap), Len(m.chunks.bitmap)) :
           StorageMap_has_chunk(a.chunks, c) = StorageMap_has_chunk(m.chunks, c)
    /\ \A n \in 0..Max(Len(a.tree.bitmap), Len(m.tree.bitmap)) :
           MerkleTree_has(a.tree, n) = MerkleTree_has(m.tree, n)
    /\ a.tree.hashes = m.tree.hashes
    /\ MerkleTree_built(a.tree) = MerkleTree_built(m.tree)

WorkerFailed ==
    last.op # "init" /\ last.routed
    /\ last.worker \notin {"Ok", "MailboxError", "NoReply"}

\* C27: a Create or Load that fails leaves the id unregistered and the
\* router serving, so that a later Create of the id can succeed.
C27_FailedCreateUnregistered ==
    (WorkerFailed /\ last.op \in {"create", "load"}) =>
        /\ router.running
        /\ last.request.id \notin DOMAIN router.actors

\* C28: when a forwarded request fails inside the worker, the caller is
\* answered with the error of the worker and the router keeps running.
C28_WorkerErrorReplied ==
    WorkerFailed => (last.reply = last.worker /\ router.running)

\* C29: a Create or Load for an id that is registered is answered
\* StorageAlreadyExists and starts no worker; the workers, the files and
\* the blobs are left as they were.
C29_Step ==
    (last'.op \in {"create", "load"} /\ last'.request.id \in DOMAIN router.actors)
        => /\ last'.reply = "StorageAlreadyExists"
           /\ UNCHANGED <<router, disk, blobs>>
C29_AlreadyExists == [][C29_Step]_vars

\* a Create for an id whose worker holds a map has been refused
C29_Witness ==
    /\ last.op = "create" /\ last.reply = "StorageAlreadyExists"
    /\ ~last.routed
    /\ router.actors[last.request.id].holder = "some"

NonCreating ==
    {"save", "read_chunk", "write_chunk", "has_chunk", "has_piece", "prove",
     "verify_proof"}

\* C30: a non-creating request for an id that no Create or Load has named
\* is answered StorageDoesNotExist; no worker is started or changed.
C30_Step ==
    (last'.op \in NonCreating /\ last'.request.id \notin DOMAIN router.actors)
        => /\ last'.reply = "StorageDoesNotExist"
           /\ UNCHANGED <<router, disk, blobs>>
C30_DoesNotExist == [][C30_Step]_vars

\* a request for an unknown id has been refused while a worker of another
\* id holds a map
C30_Witness ==
    /\ last.op \in NonCreating /\ last.reply = "StorageDoesNotExist"
    /\ ~last.routed
    /\ last.request.id \notin DOMAIN router.actors
    /\ \E id \in DOMAIN router.actors : router.actors[id].holder = "some"

\* -------------------------------------------------------------- MailSpec
\* The router and its workers as the threads they are: the router's handler
\* looks the id up, starts a worker where impl_forward_new! says so, and
\* sends the message to the worker's address; each worker takes the
\* messages of its mailbox and runs one handler at a time, to its end
\* (Handler::handle is a synchronous function on &mut self of an actor with
\* a Context of its own).  A mailbox hands its messages over in the order of
\* the sends.  router.mail is the mailbox of each address; last.sent and
\* last.handled record, per id, the messages in the order the router sent
\* them and in the order the worker handled them.  The replies travel back
\* through futures the router resolves later; they change no mailbox and
\* no worker and are left out.

MaxSent == 2         \* messages the router sends to one worker

MailInit ==
    /\ overflow_checks \in BOOLEAN
    /\ disk = NoDisk
    /\ storage = NoStorage
    /\ chunks = NoChunks
    /\ tree = NoTree
    /\ holder = "none"
    /\ written = FALSE
    /\ router = [running |-> TRUE, actors |-> [id \in {} |-> NewActor],
                 mail |-> [id \in {} |-> <<>>]]
    /\ blobs = NoBlobs
    /\ last = [op |-> "init", sent |-> [id \in {} |-> <<>>],
               handled |-> [id \in {} |-> <<>>]]

\* Handler<M> for StorageRouter, to the end of the handler: the lookup, the
\* spawn where there is one, and address.send(msg)
MailReceive(req) ==
    LET Get(f) == IF req.id \in DOMAIN f THEN f[req.id] ELSE <<>>
        Put(f, v) == [i \in DOMAIN f \cup {req.id} |-> IF i = req.id THEN v ELSE f[i]]
        Sent(f) ==
            /\ router' = [f.router EXCEPT
                             !.mail = Put(router.mail, Append(Get(router.mail), req))]
            /\ last' = [op |-> "send",
                        sent |-> Put(last.sent, Append(Get(last.sent), req)),
                        handled |-> Put(last.handled, Get(last.handled))]
    IN  /\ router.running
        /\ Len(Get(last.sent)) < MaxSent
        /\ \E f \in {IF req.op = "create" THEN impl_forward_new(router, req.id)
                     ELSE impl_forward(router, req.id)} :
               IF f.reply = "forward" THEN Sent(f)
               ELSE /\ last' = [last EXCEPT !.op = f.reply]
                    /\ UNCHANGED router
        /\ UNCHANGED <<blobs, overflow_checks, disk, storage, chunks, tree, holder, written>>

\* the worker of `id` that takes the newest message of its mailbox
MailHandle_Newest(id) ==
    LET a == router.actors[id]
        n == Len(router.mail[id])
        req == router.mail[id][n]
        Done(r) ==
            /\ router' = [router EXCEPT !.actors[id] = r.actor,
                                        !.mail[id] = SubSeq(@, 1, n - 1)]
            /\ disk' = r.files
            /\ last' = [op |-> "handle", sent |-> last.sent,
                        handled |-> [last.handled EXCEPT ![id] =
                                        Append(@, [request |-> req, kind |-> r.kind])]]
    IN  /\ id \in DOMAIN router.mail
        /\ router.mail[id] # <<>>
        /\ a.holder \notin {"aborted", "diverged"}
        /\ Done(send(disk, a,
                     IF req.op = "create" THEN Handler_Create(disk, a, req.arg)
                     ELSE Handler_HasChunk(disk, a, req.arg)))
        /\ UNCHANGED <<blobs, overflow_checks, storage, chunks, tree, holder, written>>

\* the worker of `id` takes the first message of its mailbox and runs its
\* handler; a worker whose handler panicked or never returned takes no more
MailHandle(id) ==
    LET a == router.actors[id]
        req == Head(router.mail[id])
        Done(r) ==
            /\ router' = [router EXCEPT !.actors[id] = r.actor,
                                        !.mail[id] = Tail(@)]
            /\ disk' = r.files
            /\ last' = [op |-> "handle", sent |-> last.sent,
                        handled |-> [last.handled EXCEPT ![id] =
                                        Append(@, [request |-> req, kind |-> r.kind])]]
    IN  /\ id \in DOMAIN router.mail
        /\ router.mail[id] # <<>>
        /\ a.holder \notin {"aborted", "diverged"}
        /\ Done(send(disk, a,
                     IF req.op = "create" THEN Handler_Create(disk, a, req.arg)
                     ELSE Handler_HasChunk(disk, a, req.arg)))
        /\ UNCHANGED <<blobs, overflow_checks, storage, chunks, tree, holder, written>>

MailNext ==
    \/ \E id \in RequestIds : MailReceive(Request("create", id, OneFile(1)))
    \/ \E id \in RequestIds : \E chunk \in {0, 4} :
           MailReceive(Request("has_chunk", id, chunk))
    \/ \E id \in Ids : MailHandle(id)

MailSpec == MailInit /\ [][MailNext]_vars

\* the requests of a log of handled messages
Requests(log) == [k \in 1..Len(log) |-> log[k].request]

\* C31: the requests addressed to one storage-map id are handled by its
\* worker one at a time, in the order the router received them: what the
\* worker has handled followed by what waits in its mailbox is what the
\* router sent, in that order.  The first of them is the Create that
\* started the worker, so a request sent after the Create is handled after
\* it: the worker holds the map of a successful Create from its first
\* handler on, and answers no later request as a worker without a map.
C31_InOrder ==
    \A id \in DOMAIN router.mail :
        /\ last.sent[id] = Requests(last.handled[id]) \o router.mail[id]
        /\ Head(last.sent[id]).op = "create"
        /\ \A k \in 2..Len(last.handled[id]) :
               last.handled[id][1].kind = "Ok"
                   => last.handled[id][k].kind # "StorageDoesNotExist"
        /\ router.actors[id].holder = "some"
               <=> (last.handled[id] # <<>> /\ last.handled[id][1].kind = "Ok")

\* a worker has handled its Create and the request sent behind it, in that
\* order and both with success, while the Create of another id, sent before
\* that request, still waits in its mailbox with a request behind it
C31_Witness ==
    /\ 1 \in DOMAIN router.mail /\ 2 \in DOMAIN router.mail
    /\ Len(last.handled[1]) = 2
    /\ last.handled[1][1].request.op = "create"
    /\ last.handled[1][1].kind = "Ok"
    /\ last.handled[1][2].request = Request("has_chunk", 1, 0)
    /\ last.handled[1][2].kind = "Ok"
    /\ Len(router.mail[2]) = 2 /\ last.handled[2] = <<>>

====
